---- MODULE Spec2Model ----
(***************************************************************************)
(* A model of libosrmc (src/libosrmc/osrmc.cc): the C boundary in front    *)
(* of the OSRM routing engine.  The state is the heap of response holders  *)
(* the library has handed out, the engine configuration, the caller's      *)
(* matrix buffer and what the caller sees of the call that has just        *)
(* returned.  Every boundary function is one atomic call: the caller is   *)
(* idle, calls, looks at what came back, and is idle again.                *)
(***************************************************************************)
EXTENDS Integers, Sequences, FiniteSets, TLC

VARIABLES heap, config, matrix, last, pc

vars == <<heap, config, matrix, last, pc>>

(***************************************************************************)
(* Bounds of the model.                                                    *)
(***************************************************************************)
\* Arrays of the sample responses hold 0..MaxItems elements and every index
\* argument ranges over 0..MaxItems, so "one past the last" is always tried.
MaxItems == 2

\* Response holders that may be live at once (service-call specification).
MaxHandles == 2

(***************************************************************************)
(* The Value Tree: osrm::json::Value, a variant over String, Number,       *)
(* Object, Array, True, False, Null.  An Object is an unordered map from   *)
(* key to Value, an Array a vector of Values.                              *)
(***************************************************************************)
JNull == [t |-> "Null"]

JTrue == [t |-> "True"]

JFalse == [t |-> "False"]

JNum(n) == [t |-> "Number", v |-> n]

JStr(s) == [t |-> "String", v |-> s]

JArr(s) == [t |-> "Array", v |-> s]

JObj(f) == [t |-> "Object", v |-> f]

\* What std::unordered_map::operator[] inserts for a key it does not hold: a
\* value-initialised variant, which holds its first alternative, String.
DefaultValue == JStr("")

Has(node, key) == key \in DOMAIN node.v

\* map[key] = child (insert or overwrite).
Put(node, key, child) ==
  [node EXCEPT !.v = [k \in (DOMAIN node.v) \cup {key} |->
                        IF k = key THEN child ELSE node.v[k]]]

(***************************************************************************)
(* What a call hands back to C: a double (finite, +Infinity or NaN), an    *)
(* integer, or a string owned by the holder.                               *)
(***************************************************************************)
RNum(n) == [k |-> "num", n |-> n, s |-> ""]

RInf == [k |-> "inf", n |-> 0, s |-> ""]

RNaN == [k |-> "nan", n |-> 0, s |-> ""]

RStr(s) == [k |-> "str", n |-> 0, s |-> s]

RVoid == [k |-> "void", n |-> 0, s |-> ""]

\* return std::numeric_limits<unsigned>::max();
RUintMax == [k |-> "uintmax", n |-> 0, s |-> ""]

\* return nullptr; from an accessor of const char*.
RNullPtr == [k |-> "nullptr", n |-> 0, s |-> ""]

\* return ""; the empty string literal of the library, not the holder's storage.
REmptyLiteral == [k |-> "literal", n |-> 0, s |-> ""]

\* The value of a call that went through undefined behaviour and came back.
RIndeterminate == [k |-> "indeterminate", n |-> 0, s |-> ""]

\* struct osrmc_error { std::string code; std::string message; }
ErrorRecord(code, message) == [code |-> code, message |-> message]

\* The null handle / null pointer argument.
NULL == 0

(***************************************************************************)
(* Navigation.  Every accessor descends the tree through a fixed sequence  *)
(* of steps; the steps below are the idioms osrmc.cc is written in.  An    *)
(* accessor is the list of its steps, in source order.                     *)
(***************************************************************************)
\* object.values.at(key): throws std::out_of_range when the key is missing.
At(key) == [op |-> "at", key |-> key]

\* object.values[key]: inserts a default Value when the key is missing.
Br(key) == [op |-> "br", key |-> key]

\* object.values.find(key), and on end(): *error = new osrmc_error{code, msg};
\* return sentinel.  guarded says whether the write is under if (error).
Find(key, code, msg, guarded) ==
  [op |-> "find", key |-> key, code |-> code, msg |-> msg, guarded |-> guarded]

\* A faulty variant of the step below: the miss is reported as an error.
FindReported(key) ==
  [op |-> "find", key |-> key, code |-> "NoField", msg |-> "Field not available",
   guarded |-> TRUE]

\* object.values.find(key), and on end(): return sentinel, no error.
FindSilent(key) == [op |-> "finds", key |-> key]

\* if (object.values.find(key) == object.values.end()) { *error = ...; return
\* sentinel; }  The object is then read again by key.
Need(key, code, msg, guarded) ==
  [op |-> "need", key |-> key, code |-> code, msg |-> msg, guarded |-> guarded]

\* if (object.values.find(key) == object.values.end()) return sentinel;
NeedSilent(key) == [op |-> "needs", key |-> key]

\* if (object.values.find(key) == object.values.end()) { other; }  The
\* fallback the function takes, then returns, when the key is missing.
Alt(key, other) == [op |-> "alt", key |-> key, other |-> other]

\* std::get<T>(value): throws std::bad_variant_access on another alternative.
Get(tag) == [op |-> "get", tag |-> tag]

\* if (index >= array.values.size()) { *error = IndexOutOfBounds; return
\* sentinel; } followed by array.values.at(index).  arg is the position of the
\* index among the call's index arguments.
Idx(arg, msg, guarded) == [op |-> "idx", arg |-> arg, msg |-> msg, guarded |-> guarded]

\* array.values.at(n) with a constant n: throws std::out_of_range.
AtConst(n) == [op |-> "ati", n |-> n]

\* array.values.at(index) with an index argument and no check before it.
AtArg(arg) == [op |-> "ata", arg |-> arg]

\* vector[n] with a constant n and no check: undefined when n >= size().
Elem(n) == [op |-> "elem", n |-> n]

\* if (!std::holds_alternative<tag>(value)) { *error = ...; return sentinel; }
Holds(tag, code, msg, guarded) ==
  [op |-> "holds", tag |-> tag, code |-> code, msg |-> msg, guarded |-> guarded]

\* if (std::holds_alternative<tag>(value)) { *error = ...; return sentinel; }
Excludes(tag, code, msg, guarded) ==
  [op |-> "excludes", tag |-> tag, code |-> code, msg |-> msg, guarded |-> guarded]

\* if (array.values.size() < n) { *error = ...; return sentinel; }
MinSize(n, code, msg, guarded) ==
  [op |-> "minsize", n |-> n, code |-> code, msg |-> msg, guarded |-> guarded]

\* if (array.values.empty()) { *error = ...; return sentinel; }
NotEmpty(code, msg, guarded) ==
  [op |-> "notempty", code |-> code, msg |-> msg, guarded |-> guarded]

\* if (std::holds_alternative<Null>(value)) { *error = ...; return sentinel; }
NullChk(code, msg, guarded) ==
  [op |-> "nullchk", code |-> code, msg |-> msg, guarded |-> guarded]

\* if (std::holds_alternative<osrm::json::Null>(value)) return sentinel; no error.
NullSilent == [op |-> "nulls"]

\* if (!array.values.empty()) { ... } return sentinel;
EmptySilent == [op |-> "empties"]

\* A faulty variant of the encoding below: True and False the other way round.
FlagSwapped(tag) == IF tag = "True" THEN 0 ELSE 1

\* The small integer a boolean comes back as: return 1 for the True
\* alternative, return 0 for the False one.
FlagValue(tag) == IF tag = "True" THEN 1 ELSE 0

\* if (holds_alternative<True>(value)) return 1; else if
\* (holds_alternative<False>(value)) return 0; else { *error = ...; return -1; }
Flag(code, msg, guarded) ==
  [op |-> "flag", code |-> code, msg |-> msg, guarded |-> guarded]

\* return: the Number's value ("num"), the String's c_str() ("str"), the
\* Array's size ("size"), the literal "" ("empty").
Ret(kind) == [op |-> "ret", kind |-> kind]

\* The call's context: its index arguments, whether the error out-parameter
\* is a null pointer, and the sentinel its early returns give back.
Ctx(args, errNull, sent) == [args |-> args, errNull |-> errNull, sent |-> sent]

\* return value; no error written.
Returned(node, ret) == [st |-> "ret", ret |-> ret, errs |-> <<>>, node |-> node]

\* A C++ exception leaves the function body (caught by the function-try-block).
Thrown(node, what) == [st |-> "throw", ret |-> RVoid, errs |-> <<what>>, node |-> node]

\* *error = new osrmc_error{code, msg}; return sentinel;  A write that is not
\* under if (error) goes through the null pointer when the caller passed none.
Report(node, c, code, msg, guarded) ==
  IF c.errNull
    THEN IF guarded
           THEN Returned(node, c.sent)
           ELSE [st |-> "nullwrite", ret |-> c.sent, errs |-> <<>>, node |-> node]
    ELSE [st |-> "ret", ret |-> c.sent, errs |-> <<ErrorRecord(code, msg)>>,
          node |-> node]

RetOf(node, kind) ==
  CASE kind = "num" -> RNum(node.v)
    [] kind = "str" -> RStr(node.v)
    [] kind = "size" -> RNum(Len(node.v))
    [] kind = "empty" -> REmptyLiteral

\* A faulty variant of the check below, index > size, which lets the index
\* one past the last through.
IndexPastEnd(index, size) == index > size

\* if (index >= array.values.size()); the element is then read with
\* array.values.at(index), which throws on an index the check let through.
IndexOutOfBounds(index, size) == index >= size

\* Put the result of running the rest of the program on a child back under
\* its parent: a reference into the tree, so an insert below is kept.
InObject(node, key, r) == [r EXCEPT !.node = Put(node, key, r.node)]

InArray(node, i, r) == [r EXCEPT !.node = [node EXCEPT !.v[i] = r.node]]

RECURSIVE Run(_, _, _, _)
\* Run steps i.. of prog at node: the outcome and the node as the steps leave it.
Run(node, prog, i, c) ==
  LET s == prog[i] IN
  CASE s.op = "at" ->
         IF Has(node, s.key)
           THEN InObject(node, s.key, Run(node.v[s.key], prog, i + 1, c))
           ELSE Thrown(node, "out_of_range")
    [] s.op = "br" ->
         LET grown == IF Has(node, s.key) THEN node ELSE Put(node, s.key, DefaultValue)
         IN InObject(grown, s.key, Run(grown.v[s.key], prog, i + 1, c))
    [] s.op = "find" ->
         IF Has(node, s.key)
           THEN InObject(node, s.key, Run(node.v[s.key], prog, i + 1, c))
           ELSE Report(node, c, s.code, s.msg, s.guarded)
    [] s.op = "finds" ->
         IF Has(node, s.key)
           THEN InObject(node, s.key, Run(node.v[s.key], prog, i + 1, c))
           ELSE Returned(node, c.sent)
    [] s.op = "need" ->
         IF Has(node, s.key)
           THEN Run(node, prog, i + 1, c)
           ELSE Report(node, c, s.code, s.msg, s.guarded)
    [] s.op = "needs" ->
         IF Has(node, s.key)
           THEN Run(node, prog, i + 1, c)
           ELSE Returned(node, c.sent)
    [] s.op = "alt" ->
         IF Has(node, s.key)
           THEN Run(node, prog, i + 1, c)
           ELSE Run(node, s.other, 1, c)
    [] s.op = "get" ->
         IF node.t = s.tag
           THEN Run(node, prog, i + 1, c)
           ELSE Thrown(node, "bad_variant_access")
    [] s.op = "idx" ->
         IF IndexOutOfBounds(c.args[s.arg], Len(node.v))
           THEN Report(node, c, "IndexOutOfBounds", s.msg, s.guarded)
           ELSE IF c.args[s.arg] >= Len(node.v)
                  THEN Thrown(node, "out_of_range")
                  ELSE InArray(node, c.args[s.arg] + 1,
                               Run(node.v[c.args[s.arg] + 1], prog, i + 1, c))
    [] s.op = "ati" ->
         IF s.n >= Len(node.v)
           THEN Thrown(node, "out_of_range")
           ELSE InArray(node, s.n + 1, Run(node.v[s.n + 1], prog, i + 1, c))
    [] s.op = "ata" ->
         IF c.args[s.arg] >= Len(node.v)
           THEN Thrown(node, "out_of_range")
           ELSE InArray(node, c.args[s.arg] + 1,
                        Run(node.v[c.args[s.arg] + 1], prog, i + 1, c))
    [] s.op = "elem" ->
         IF s.n >= Len(node.v)
           THEN [st |-> "wildread", ret |-> c.sent, errs |-> <<>>, node |-> node]
           ELSE InArray(node, s.n + 1, Run(node.v[s.n + 1], prog, i + 1, c))
    [] s.op = "holds" ->
         IF node.t = s.tag
           THEN Run(node, prog, i + 1, c)
           ELSE Report(node, c, s.code, s.msg, s.guarded)
    [] s.op = "excludes" ->
         IF node.t = s.tag
           THEN Report(node, c, s.code, s.msg, s.guarded)
           ELSE Run(node, prog, i + 1, c)
    [] s.op = "minsize" ->
         IF Len(node.v) < s.n
           THEN Report(node, c, s.code, s.msg, s.guarded)
           ELSE Run(node, prog, i + 1, c)
    [] s.op = "notempty" ->
         IF Len(node.v) = 0
           THEN Report(node, c, s.code, s.msg, s.guarded)
           ELSE Run(node, prog, i + 1, c)
    [] s.op = "nullchk" ->
         IF node.t = "Null"
           THEN Report(node, c, s.code, s.msg, s.guarded)
           ELSE Run(node, prog, i + 1, c)
    [] s.op = "nulls" ->
         IF node.t = "Null" THEN Returned(node, c.sent) ELSE Run(node, prog, i + 1, c)
    [] s.op = "empties" ->
         IF Len(node.v) = 0 THEN Returned(node, c.sent) ELSE Run(node, prog, i + 1, c)
    [] s.op = "flag" ->
         IF node.t \in {"True", "False"}
           THEN Returned(node, RNum(FlagValue(node.t)))
           ELSE Report(node, c, s.code, s.msg, s.guarded)
    [] s.op = "ret" -> Returned(node, RetOf(node, s.kind))

\* A faulty variant of the adapter below: the record carries another code.
ExceptionMiscoded(what, errNull) ==
  IF errNull THEN <<>> ELSE <<ErrorRecord("Unknown", what)>>

\* A faulty variant of the adapter below: a catch block that writes nothing.
ExceptionSwallowed(what, errNull) == <<>>

\* static void osrmc_error_from_exception(const std::exception& e, osrmc_error_t* error)
osrmc_error_from_exception(what, errNull) ==
  IF errNull THEN <<>> ELSE <<ErrorRecord("Exception", what)>>

(***************************************************************************)
(* The response accessors.  Each is a record: the service whose handle it  *)
(* takes, whether it starts with osrmc_validate_<service>_response, the    *)
(* sentinel its early returns and its catch block give back, the number of *)
(* its index arguments, the key whose value it hands out, and its steps.   *)
(***************************************************************************)
Accessor(name, svc, validates, sent, nargs, field, prog) ==
  [name |-> name, svc |-> svc, validates |-> validates, sent |-> sent,
   nargs |-> nargs, field |-> field, prog |-> prog]

COORDINATE_LATITUDE_INDEX == 1

\* static const osrm::json::Object* osrmc_get_route_leg(response_json, route_index, leg_index, error)
osrmc_get_route_leg ==
  << At("routes"), Get("Array"), Idx(1, "Route index out of bounds", TRUE),
     Get("Object"), At("legs"), Get("Array"),
     Idx(2, "Leg index out of bounds", TRUE), Get("Object") >>

\* static const osrm::json::Object* osrmc_get_route_step(response_json, route_index, leg_index, step_index, error)
osrmc_get_route_step ==
  << At("routes"), Get("Array"), Idx(1, "Route index out of bounds", TRUE),
     Get("Object"), At("legs"), Get("Array"),
     Idx(2, "Leg index out of bounds", TRUE), Get("Object"),
     Find("steps", "NoSteps", "Steps not available for this leg", TRUE),
     Get("Array"), Idx(3, "Step index out of bounds", TRUE), Get("Object") >>

\* static const osrm::json::Object* osrmc_get_step_intersection(step, intersection_index, error)
osrmc_get_step_intersection ==
  << Find("intersections", "NoIntersections",
          "Intersections not available for this step", TRUE),
     Get("Array"), Idx(4, "Intersection index out of bounds", TRUE),
     Get("Object") >>

\* static const osrm::json::Array* osrmc_get_step_geometry_coordinates(step, error)
osrmc_get_step_geometry_coordinates ==
  << Find("geometry", "NoGeometry", "Geometry not available for this step", TRUE),
     Excludes("String", "UnsupportedGeometry",
              "Step geometry is polyline string, use step_geometry_polyline instead", TRUE),
     Holds("Object", "UnsupportedGeometry",
           "Only GeoJSON geometry format is supported for coordinate access", TRUE),
     Find("coordinates", "UnsupportedGeometry",
          "Only GeoJSON geometry format is supported for coordinate access", TRUE),
     Get("Array") >>

osrmc_nearest_response_count ==
  Accessor("osrmc_nearest_response_count", "nearest", TRUE, RNum(0), 0, "waypoints",
    << NeedSilent("waypoints"), At("waypoints"), Get("Array"), Ret("size") >>)

osrmc_nearest_response_latitude ==
  Accessor("osrmc_nearest_response_latitude", "nearest", TRUE, RNaN, 1, "location",
    << At("waypoints"), Get("Array"), Idx(1, "Waypoint index out of bounds", FALSE),
       Get("Object"), At("location"), Get("Array"),
       Elem(COORDINATE_LATITUDE_INDEX), Get("Number"), Ret("num") >>)

osrmc_nearest_response_distance ==
  Accessor("osrmc_nearest_response_distance", "nearest", TRUE, RInf, 1, "distance",
    << At("waypoints"), Get("Array"), Idx(1, "Waypoint index out of bounds", FALSE),
       Get("Object"), At("distance"), Get("Number"), Ret("num") >>)

osrmc_nearest_response_name ==
  Accessor("osrmc_nearest_response_name", "nearest", TRUE, RNullPtr, 1, "name",
    << At("waypoints"), Get("Array"), Idx(1, "Waypoint index out of bounds", FALSE),
       Get("Object"), At("name"), Get("String"), Ret("str") >>)

osrmc_route_response_distance ==
  Accessor("osrmc_route_response_distance", "route", TRUE, RInf, 0, "distance",
    << Br("routes"), Get("Array"), AtConst(0), Get("Object"),
       Br("distance"), Get("Number"), Ret("num") >>)

osrmc_route_response_duration ==
  Accessor("osrmc_route_response_duration", "route", TRUE, RInf, 0, "duration",
    << Br("routes"), Get("Array"), AtConst(0), Get("Object"),
       Br("duration"), Get("Number"), Ret("num") >>)

osrmc_route_response_weight ==
  Accessor("osrmc_route_response_weight", "route", TRUE, RInf, 0, "weight",
    << Br("routes"), Get("Array"), AtConst(0), Get("Object"),
       Find("weight", "NoWeight", "Weight not available for this route", FALSE),
       Get("Number"), Ret("num") >>)

osrmc_route_response_alternative_count ==
  Accessor("osrmc_route_response_alternative_count", "route", TRUE, RNum(0), 0, "routes",
    << NeedSilent("routes"), At("routes"), Get("Array"), Ret("size") >>)

osrmc_route_response_distance_at ==
  Accessor("osrmc_route_response_distance_at", "route", TRUE, RInf, 1, "distance",
    << Br("routes"), Get("Array"), Idx(1, "Route index out of bounds", FALSE),
       Get("Object"), Br("distance"), Get("Number"), Ret("num") >>)

osrmc_route_response_geometry_polyline ==
  Accessor("osrmc_route_response_geometry_polyline", "route", TRUE, RNullPtr, 1, "geometry",
    << Br("routes"), Get("Array"), Idx(1, "Route index out of bounds", FALSE),
       Get("Object"),
       Find("geometry", "NoGeometry", "Geometry not available for this route", FALSE),
       Holds("String", "NoPolyline", "Geometry not available for this route", FALSE),
       Ret("str") >>)

osrmc_route_response_waypoint_latitude ==
  Accessor("osrmc_route_response_waypoint_latitude", "route", TRUE, RNaN, 1, "location",
    << At("waypoints"), Get("Array"), Idx(1, "Waypoint index out of bounds", FALSE),
       Get("Object"), At("location"), Get("Array"),
       Elem(COORDINATE_LATITUDE_INDEX), Get("Number"), Ret("num") >>)

osrmc_route_response_waypoint_name ==
  Accessor("osrmc_route_response_waypoint_name", "route", TRUE, RNullPtr, 1, "name",
    << At("waypoints"), Get("Array"), Idx(1, "Waypoint index out of bounds", FALSE),
       Get("Object"), NeedSilent("name"), At("name"), Get("String"), Ret("str") >>)

osrmc_route_response_leg_count ==
  Accessor("osrmc_route_response_leg_count", "route", TRUE, RNum(0), 1, "legs",
    << Br("routes"), Get("Array"), Idx(1, "Route index out of bounds", FALSE),
       Get("Object"), NeedSilent("legs"), At("legs"), Get("Array"), Ret("size") >>)

osrmc_route_response_leg_distance ==
  Accessor("osrmc_route_response_leg_distance", "route", TRUE, RInf, 2, "distance",
    osrmc_get_route_leg \o
    << Find("distance", "NoDistance", "Distance not available for this leg", TRUE),
       Get("Number"), Ret("num") >>)

osrmc_route_response_leg_duration ==
  Accessor("osrmc_route_response_leg_duration", "route", TRUE, RInf, 2, "duration",
    osrmc_get_route_leg \o
    << Find("duration", "NoDuration", "Duration not available for this leg", TRUE),
       Get("Number"), Ret("num") >>)

osrmc_route_response_leg_weight ==
  Accessor("osrmc_route_response_leg_weight", "route", TRUE, RInf, 2, "weight",
    << Br("routes"), Get("Array"), Idx(1, "Route index out of bounds", FALSE),
       Get("Object"), At("legs"), Get("Array"),
       Idx(2, "Leg index out of bounds", FALSE), Get("Object"),
       Find("weight", "NoWeight", "Weight not available for this leg", FALSE),
       Get("Number"), Ret("num") >>)

osrmc_route_response_leg_annotations_duration ==
  Accessor("osrmc_route_response_leg_annotations_duration", "route", TRUE, RNaN, 3,
    "duration",
    << Br("routes"), Get("Array"), Idx(1, "Route index out of bounds", FALSE),
       Get("Object"), At("legs"), Get("Array"),
       Idx(2, "Leg index out of bounds", FALSE), Get("Object"),
       Find("annotation", "NoAnnotations", "Annotations not available for this leg", FALSE),
       Get("Object"),
       Find("duration", "NoDuration", "Duration annotations not available", FALSE),
       Get("Array"), Idx(3, "Annotation index out of bounds", FALSE),
       Get("Number"), Ret("num") >>)

\* if (annotation.values.find(key) != annotation.values.end()) return the size
\* of the Array under key; otherwise go on with other.
SizeOf(key, other) == << Alt(key, other), At(key), Get("Array"), Ret("size") >>

\* The tail of the three leg_annotations_count accessors, from the leg on.
AnnotationsCount ==
  << FindSilent("annotation"), Get("Object") >>
    \o SizeOf("duration", SizeOf("distance", SizeOf("speed", SizeOf("weight",
          SizeOf("nodes", << NeedSilent("datasources"), At("datasources"), Get("Array"),
                             Ret("size") >>)))))

osrmc_route_response_leg_annotations_count ==
  Accessor("osrmc_route_response_leg_annotations_count", "route", TRUE, RNum(0), 2,
    "annotation",
    << Br("routes"), Get("Array"), Idx(1, "Route index out of bounds", FALSE),
       Get("Object"), At("legs"), Get("Array"),
       Idx(2, "Leg index out of bounds", FALSE), Get("Object") >> \o AnnotationsCount)

osrmc_route_response_leg_annotations_datasources ==
  Accessor("osrmc_route_response_leg_annotations_datasources", "route", TRUE, RNum(0), 3,
    "datasources",
    << Br("routes"), Get("Array"), Idx(1, "Route index out of bounds", FALSE),
       Get("Object"), At("legs"), Get("Array"),
       Idx(2, "Leg index out of bounds", FALSE), Get("Object"),
       Find("annotation", "NoAnnotations", "Annotations not available for this leg", FALSE),
       Get("Object"),
       Find("datasources", "NoDatasources", "Datasources annotations not available", FALSE),
       Get("Array"), Idx(3, "Annotation index out of bounds", FALSE),
       Get("Number"), Ret("num") >>)

\* No osrmc_validate_route_response before the handle is used.
osrmc_route_response_leg_annotations_nodes ==
  Accessor("osrmc_route_response_leg_annotations_nodes", "route", FALSE, RNum(0), 3,
    "nodes",
    << Br("routes"), Get("Array"), Idx(1, "Route index out of bounds", FALSE),
       Get("Object"), At("legs"), Get("Array"),
       Idx(2, "Leg index out of bounds", FALSE), Get("Object"),
       Find("annotation", "NoAnnotations", "Annotations not available for this leg", FALSE),
       Get("Object"),
       Find("nodes", "NoNodes", "Nodes annotations not available", FALSE),
       Get("Array"), Idx(3, "Annotation index out of bounds", FALSE),
       Get("Number"), Ret("num") >>)

\* No osrmc_validate_match_response before the handle is used.
osrmc_match_response_leg_annotations_count ==
  Accessor("osrmc_match_response_leg_annotations_count", "match", FALSE, RNum(0), 2,
    "annotation",
    << Need("matchings", "NoMatchings", "No matchings available in response", FALSE),
       At("matchings"), Get("Array"), Idx(1, "Route index out of bounds", FALSE),
       Get("Object"), At("legs"), Get("Array"),
       Idx(2, "Leg index out of bounds", FALSE), Get("Object") >> \o AnnotationsCount)

\* No osrmc_validate_trip_response before the handle is used.
osrmc_trip_response_leg_annotations_count ==
  Accessor("osrmc_trip_response_leg_annotations_count", "trip", FALSE, RNum(0), 2,
    "annotation",
    << Need("trips", "NoTrips", "No trips available in response", FALSE),
       At("trips"), Get("Array"), Idx(1, "Trip index out of bounds", FALSE),
       Get("Object"), At("legs"), Get("Array"),
       Idx(2, "Leg index out of bounds", FALSE), Get("Object") >> \o AnnotationsCount)

osrmc_route_response_step_count ==
  Accessor("osrmc_route_response_step_count", "route", TRUE, RNum(0), 2, "steps",
    << Br("routes"), Get("Array"), Idx(1, "Route index out of bounds", FALSE),
       Get("Object"), At("legs"), Get("Array"),
       Idx(2, "Leg index out of bounds", FALSE), Get("Object"),
       NeedSilent("steps"), At("steps"), Get("Array"), Ret("size") >>)

\* No osrmc_validate_route_response before the handle is used.
osrmc_route_response_step_distance ==
  Accessor("osrmc_route_response_step_distance", "route", FALSE, RNaN, 3, "distance",
    << Br("routes"), Get("Array"), Idx(1, "Route index out of bounds", FALSE),
       Get("Object"), At("legs"), Get("Array"),
       Idx(2, "Leg index out of bounds", FALSE), Get("Object"),
       At("steps"), Get("Array"), Idx(3, "Step index out of bounds", FALSE),
       Get("Object"), At("distance"), Get("Number"), Ret("num") >>)

osrmc_route_response_step_duration ==
  Accessor("osrmc_route_response_step_duration", "route", TRUE, RNaN, 3, "duration",
    << Br("routes"), Get("Array"), Idx(1, "Route index out of bounds", FALSE),
       Get("Object"), At("legs"), Get("Array"),
       Idx(2, "Leg index out of bounds", FALSE), Get("Object"),
       At("steps"), Get("Array"), Idx(3, "Step index out of bounds", FALSE),
       Get("Object"), At("duration"), Get("Number"), Ret("num") >>)

\* No osrmc_validate_route_response before the handle is used.
osrmc_route_response_step_weight ==
  Accessor("osrmc_route_response_step_weight", "route", FALSE, RNaN, 3, "weight",
    << Br("routes"), Get("Array"), Idx(1, "Route index out of bounds", FALSE),
       Get("Object"), At("legs"), Get("Array"),
       Idx(2, "Leg index out of bounds", FALSE), Get("Object"),
       At("steps"), Get("Array"), Idx(3, "Step index out of bounds", FALSE),
       Get("Object"),
       Find("weight", "NoWeight", "Weight not available for this step", FALSE),
       Get("Number"), Ret("num") >>)

osrmc_route_response_leg_summary ==
  Accessor("osrmc_route_response_leg_summary", "route", TRUE, RNullPtr, 2, "summary",
    osrmc_get_route_leg \o << FindSilent("summary"), Get("String"), Ret("str") >>)

osrmc_route_response_step_ref ==
  Accessor("osrmc_route_response_step_ref", "route", TRUE, RNullPtr, 3, "ref",
    osrmc_get_route_step \o << FindSilent("ref"), Get("String"), Ret("str") >>)

osrmc_route_response_step_exits ==
  Accessor("osrmc_route_response_step_exits", "route", TRUE, RNullPtr, 3, "exits",
    osrmc_get_route_step \o << FindSilent("exits"), Get("String"), Ret("str") >>)

osrmc_route_response_step_maneuver_type ==
  Accessor("osrmc_route_response_step_maneuver_type", "route", TRUE, RNullPtr, 3, "type",
    osrmc_get_route_step \o
    << Find("maneuver", "NoManeuver", "Maneuver not available for this step", TRUE),
       Get("Object"),
       Find("type", "NoType", "Type not available for this maneuver", TRUE),
       Get("String"), Ret("str") >>)

osrmc_route_response_step_maneuver_modifier ==
  Accessor("osrmc_route_response_step_maneuver_modifier", "route", TRUE, RNullPtr, 3,
           "modifier",
    osrmc_get_route_step \o
    << Find("maneuver", "NoManeuver", "Maneuver not available for this step", TRUE),
       Get("Object"), FindSilent("modifier"), Get("String"), Ret("str") >>)

osrmc_route_response_step_geometry_polyline ==
  Accessor("osrmc_route_response_step_geometry_polyline", "route", TRUE, RNullPtr, 3,
           "geometry",
    osrmc_get_route_step \o
    << Find("geometry", "NoGeometry", "Geometry not available for this step", TRUE),
       Holds("String", "UnsupportedGeometry", "Step geometry is GeoJSON, not polyline", TRUE),
       Ret("str") >>)

osrmc_route_response_step_geometry_coordinate_count ==
  Accessor("osrmc_route_response_step_geometry_coordinate_count", "route", TRUE, RNum(0), 3,
           "coordinates",
    osrmc_get_route_step \o osrmc_get_step_geometry_coordinates \o << Ret("size") >>)

osrmc_route_response_step_geometry_coordinate_latitude ==
  Accessor("osrmc_route_response_step_geometry_coordinate_latitude", "route", TRUE, RNaN, 4,
           "coordinates",
    osrmc_get_route_step \o osrmc_get_step_geometry_coordinates \o
    << Idx(4, "Coordinate index out of bounds", TRUE), Get("Array"),
       MinSize(2, "InvalidCoordinate", "Coordinate array does not have enough elements",
               TRUE),
       Elem(COORDINATE_LATITUDE_INDEX), Get("Number"), Ret("num") >>)

osrmc_route_response_step_intersection_count ==
  Accessor("osrmc_route_response_step_intersection_count", "route", TRUE, RNum(0), 3,
    "intersections",
    osrmc_get_route_step \o
    << FindSilent("intersections"), Get("Array"), Ret("size") >>)

osrmc_route_response_step_intersection_location_latitude ==
  Accessor("osrmc_route_response_step_intersection_location_latitude", "route", TRUE,
    RNaN, 4, "location",
    osrmc_get_route_step \o osrmc_get_step_intersection \o
    << Find("location", "NoLocation", "Location not available for this intersection", TRUE),
       Get("Array"),
       MinSize(2, "InvalidLocation", "Location array does not have enough elements", TRUE),
       Elem(COORDINATE_LATITUDE_INDEX), Get("Number"), Ret("num") >>)

osrmc_table_response_duration ==
  Accessor("osrmc_table_response_duration", "table", TRUE, RInf, 2, "durations",
    << Need("durations", "NoTable", "Table request not configured to return durations", FALSE),
       Br("durations"), Get("Array"), AtArg(1), Get("Array"), AtArg(2),
       NullChk("NoRoute", "Impossible route between points", FALSE),
       Get("Number"), Ret("num") >>)

osrmc_table_response_distance ==
  Accessor("osrmc_table_response_distance", "table", TRUE, RInf, 2, "distances",
    << Need("distances", "NoTable", "Table request not configured to return distances", FALSE),
       At("distances"), Get("Array"), AtArg(1), Get("Array"), AtArg(2),
       NullChk("NoRoute", "Impossible route between points", FALSE),
       Get("Number"), Ret("num") >>)

\* No osrmc_validate_table_response before the handle is used.
osrmc_table_response_source_count ==
  Accessor("osrmc_table_response_source_count", "table", FALSE, RNum(0), 0, "sources",
    << Alt("sources", << NeedSilent("durations"), At("durations"), Get("Array"),
                         Ret("size") >>),
       At("sources"), Get("Array"), Ret("size") >>)

\* A faulty variant of the accessor below: without "destinations" it counts
\* the rows of "durations".
DestinationCountOfRows ==
  Accessor("osrmc_table_response_destination_count", "table", TRUE, RNum(0), 0,
    "destinations",
    << Alt("destinations", << NeedSilent("durations"), At("durations"), Get("Array"),
                              Ret("size") >>),
       At("destinations"), Get("Array"), Ret("size") >>)

\* Without "destinations": the length of the first row of "durations", 0 when
\* there is no "durations" or no row.
osrmc_table_response_destination_count ==
  Accessor("osrmc_table_response_destination_count", "table", TRUE, RNum(0), 0,
    "destinations",
    << Alt("destinations", << NeedSilent("durations"), At("durations"), Get("Array"),
                              EmptySilent, AtConst(0), Get("Array"), Ret("size") >>),
       At("destinations"), Get("Array"), Ret("size") >>)

\* No osrmc_validate_match_response before the handle is used.
osrmc_table_response_source_name ==
  Accessor("osrmc_table_response_source_name", "table", TRUE, RNullPtr, 1, "name",
    << Find("sources", "NoSources", "Sources not available in response", FALSE),
       Get("Array"), Idx(1, "Source index out of bounds", FALSE), Get("Object"),
       Alt("name", << Ret("empty") >>), At("name"), Get("String"), Ret("str") >>)

osrmc_match_response_route_distance ==
  Accessor("osrmc_match_response_route_distance", "match", FALSE, RInf, 1, "distance",
    << At("matchings"), Get("Array"), Idx(1, "Route index out of bounds", FALSE),
       Get("Object"), At("distance"), Get("Number"), Ret("num") >>)

osrmc_match_response_tracepoint_latitude ==
  Accessor("osrmc_match_response_tracepoint_latitude", "match", TRUE, RNaN, 1, "location",
    << At("tracepoints"), Get("Array"), Idx(1, "Tracepoint index out of bounds", FALSE),
       NullChk("NullTracepoint", "Tracepoint was omitted (outlier)", FALSE),
       Get("Object"), At("location"), Get("Array"),
       Elem(COORDINATE_LATITUDE_INDEX), Get("Number"), Ret("num") >>)

osrmc_match_response_tracepoint_waypoint_index ==
  Accessor("osrmc_match_response_tracepoint_waypoint_index", "match", TRUE, RNum(-1), 1,
           "waypoint_index",
    << At("tracepoints"), Get("Array"), Idx(1, "Tracepoint index out of bounds", FALSE),
       NullChk("NullTracepoint", "Tracepoint was omitted (outlier)", FALSE),
       Get("Object"),
       Find("waypoint_index", "NoWaypointIndex", "Waypoint index not available", FALSE),
       NullSilent, Get("Number"), Ret("num") >>)

\* No osrmc_validate_match_response before the handle is used.
osrmc_match_response_tracepoint_alternatives_count ==
  Accessor("osrmc_match_response_tracepoint_alternatives_count", "match", FALSE, RUintMax,
           1, "alternatives_count",
    << At("tracepoints"), Get("Array"), Idx(1, "Tracepoint index out of bounds", FALSE),
       NullChk("NullTracepoint", "Tracepoint was omitted (outlier)", FALSE),
       Get("Object"), At("alternatives_count"), Get("Number"), Ret("num") >>)

osrmc_match_response_tracepoint_name ==
  Accessor("osrmc_match_response_tracepoint_name", "match", TRUE, RNullPtr, 1, "name",
    << At("tracepoints"), Get("Array"), Idx(1, "Tracepoint index out of bounds", FALSE),
       NullChk("NullTracepoint", "Tracepoint was omitted (outlier)", FALSE),
       Get("Object"), FindSilent("name"), Get("String"), Ret("str") >>)

\* No osrmc_validate_match_response before the handle is used.
osrmc_match_response_tracepoint_distance ==
  Accessor("osrmc_match_response_tracepoint_distance", "match", FALSE, RNaN, 1, "distance",
    << At("tracepoints"), Get("Array"), Idx(1, "Tracepoint index out of bounds", FALSE),
       NullChk("NullTracepoint", "Tracepoint was omitted (outlier)", FALSE),
       Get("Object"), At("distance"), Get("Number"), Ret("num") >>)

osrmc_trip_response_distance ==
  Accessor("osrmc_trip_response_distance", "trip", TRUE, RInf, 0, "distance",
    << At("trips"), Get("Array"),
       NotEmpty("NoTrips", "No trips available in response", FALSE),
       AtConst(0), Get("Object"), At("distance"), Get("Number"), Ret("num") >>)

osrmc_trip_response_waypoint_distance ==
  Accessor("osrmc_trip_response_waypoint_distance", "trip", TRUE, RNaN, 1, "distance",
    << At("waypoints"), Get("Array"), Idx(1, "Waypoint index out of bounds", FALSE),
       Get("Object"), At("distance"), Get("Number"), Ret("num") >>)

\* The tile holder is a std::string, not a tree: size() of the bytes.
osrmc_tile_response_size ==
  Accessor("osrmc_tile_response_size", "tile", TRUE, RNum(0), 0, "", << Ret("size") >>)

osrmc_route_response_step_intersection_entry ==
  Accessor("osrmc_route_response_step_intersection_entry", "route", TRUE, RNum(-1), 5,
    "entry",
    osrmc_get_route_step \o osrmc_get_step_intersection \o
    << Find("entry", "NoEntry", "Entry flags not available for this intersection", TRUE),
       Get("Array"), Idx(5, "Entry index out of bounds", TRUE),
       Flag("InvalidEntry", "Entry value is not a boolean", TRUE) >>)

osrmc_route_response_step_intersection_lane_valid ==
  Accessor("osrmc_route_response_step_intersection_lane_valid", "route", TRUE,
    RNum(-1), 5, "valid",
    osrmc_get_route_step \o osrmc_get_step_intersection \o
    << Find("lanes", "NoLanes", "Lanes not available for this intersection", TRUE),
       Get("Array"), Idx(5, "Lane index out of bounds", TRUE), Get("Object"),
       FindSilent("valid"),
       Flag("InvalidValid", "Valid value is not a boolean", TRUE) >>)

NearestAccessors ==
  { osrmc_nearest_response_count, osrmc_nearest_response_latitude,
    osrmc_nearest_response_name, osrmc_nearest_response_distance }

RouteAccessors ==
  { osrmc_route_response_distance, osrmc_route_response_duration,
    osrmc_route_response_weight, osrmc_route_response_alternative_count,
    osrmc_route_response_distance_at, osrmc_route_response_geometry_polyline,
    osrmc_route_response_step_geometry_polyline,
    osrmc_route_response_step_geometry_coordinate_count,
    osrmc_route_response_step_geometry_coordinate_latitude,
    osrmc_route_response_waypoint_latitude, osrmc_route_response_waypoint_name,
    osrmc_route_response_leg_count, osrmc_route_response_leg_distance,
    osrmc_route_response_leg_duration, osrmc_route_response_leg_weight,
    osrmc_route_response_leg_annotations_duration,
    osrmc_route_response_leg_annotations_count,
    osrmc_route_response_leg_annotations_datasources,
    osrmc_route_response_leg_annotations_nodes, osrmc_route_response_step_count,
    osrmc_route_response_step_distance, osrmc_route_response_step_duration,
    osrmc_route_response_step_weight, osrmc_route_response_leg_summary,
    osrmc_route_response_step_ref, osrmc_route_response_step_exits,
    osrmc_route_response_step_maneuver_type,
    osrmc_route_response_step_maneuver_modifier,
    osrmc_route_response_step_intersection_count,
    osrmc_route_response_step_intersection_location_latitude,
    osrmc_route_response_step_intersection_entry,
    osrmc_route_response_step_intersection_lane_valid }

TableAccessors ==
  { osrmc_table_response_duration, osrmc_table_response_distance,
    osrmc_table_response_source_count, osrmc_table_response_destination_count,
    osrmc_table_response_source_name }

MatchAccessors ==
  { osrmc_match_response_route_distance, osrmc_match_response_tracepoint_latitude,
    osrmc_match_response_tracepoint_waypoint_index,
    osrmc_match_response_tracepoint_alternatives_count,
    osrmc_match_response_tracepoint_name,
    osrmc_match_response_tracepoint_distance,
    osrmc_match_response_leg_annotations_count }

TripAccessors ==
  { osrmc_trip_response_distance, osrmc_trip_response_waypoint_distance,
    osrmc_trip_response_leg_annotations_count }

TileAccessors == { osrmc_tile_response_size }

(***************************************************************************)
(* One accessor call.  What the caller can observe of it: whether it       *)
(* came back, the value, the error records written through the error       *)
(* out-parameter in order (the slot holds the last), and the tree as the   *)
(* call left it.  ub names the undefined behaviour the call went through.  *)
(***************************************************************************)
Outcome(st, ret, errs, ub, node) ==
  [st |-> st, ret |-> ret, errs |-> errs, ub |-> ub, node |-> node]

\* Undefined behaviour: the process faults, or the call comes back with
\* whatever the build makes of it.
Undefined(ub, ret, node) ==
  { Outcome("fault", RVoid, <<>>, ub, node), Outcome("ret", ret, <<>>, ub, node) }

ResponseName(svc) ==
  CASE svc = "nearest" -> "Nearest"
    [] svc = "route" -> "Route"
    [] svc = "table" -> "Table"
    [] svc = "match" -> "Match"
    [] svc = "trip" -> "Trip"
    [] svc = "tile" -> "Tile"

\* static bool osrmc_validate_<service>_response(response, error): the records
\* it writes when response is null.
osrmc_validate_response(svc, errNull) ==
  IF errNull THEN <<>>
  ELSE << ErrorRecord("InvalidArgument", ResponseName(svc) \o " response must not be null") >>

\* The body of an accessor on a live holder, with its catch block.
AccessorBody(a, json, args, errNull) ==
  LET r == Run(json, a.prog, 1, Ctx(args, errNull, a.sent)) IN
  CASE r.st = "ret" -> { Outcome("ret", r.ret, r.errs, "none", r.node) }
    [] r.st = "throw" ->
         { Outcome("ret", a.sent, osrmc_error_from_exception(r.errs[1], errNull),
                   "none", r.node) }
    [] r.st = "nullwrite" -> Undefined("nullwrite", a.sent, r.node)
    [] r.st = "wildread" -> Undefined("wildread", RIndeterminate, r.node)

\* accessor(response, args..., error)
AccessorOutcomes(a, h, json, args, errNull) ==
  IF h = NULL
    THEN IF a.validates
           THEN { Outcome("ret", a.sent, osrmc_validate_response(a.svc, errNull),
                          "none", json) }
           ELSE Undefined("nullderef", RIndeterminate, json)
    ELSE AccessorBody(a, json, args, errNull)

(***************************************************************************)
(* The bulk table accessors: the matrix under key, flattened into the      *)
(* caller's buffer of max_size doubles.                                    *)
(***************************************************************************)
MatrixAccessor(name, validates, key, msg) ==
  [name |-> name, svc |-> "table", validates |-> validates, key |-> key, msg |-> msg]

\* No osrmc_validate_table_response before the handle is used.
osrmc_table_response_get_duration_matrix ==
  MatrixAccessor("osrmc_table_response_get_duration_matrix", FALSE, "durations",
                 "Table request not configured to return durations")

osrmc_table_response_get_distance_matrix ==
  MatrixAccessor("osrmc_table_response_get_distance_matrix", TRUE, "distances",
                 "Table request not configured to return distances")

MatrixAccessors ==
  { osrmc_table_response_get_duration_matrix, osrmc_table_response_get_distance_matrix }

\* A double of the caller's buffer the library has not written.
Unwritten == [k |-> "unwritten", n |-> 0, s |-> ""]

\* A faulty variant of the conversion below: a Null cell written as 0.
MatrixCellZero(value) == IF value.t = "Null" THEN RNum(0) ELSE RNum(value.v)

\* if (holds_alternative<Null>(value)) matrix[idx] = infinity; else
\* matrix[idx] = std::get<Number>(value).value;
MatrixCell(value) == IF value.t = "Null" THEN RInf ELSE RNum(value.v)

RECURSIVE FillMatrix(_, _, _, _)
\* The two loops from cell idx on: the buffer when they end, and whether they
\* ended by an exception (a row that is no Array, a row shorter than the
\* first, a cell that is neither Null nor a Number).
FillMatrix(rows, cols, idx, buf) ==
  IF idx >= Len(rows) * cols THEN [buf |-> buf, threw |-> <<>>]
  ELSE LET row == rows[(idx \div cols) + 1]
           j == idx % cols
       IN IF row.t # "Array" THEN [buf |-> buf, threw |-> <<"bad_variant_access">>]
          ELSE IF j >= Len(row.v) THEN [buf |-> buf, threw |-> <<"out_of_range">>]
          ELSE IF row.v[j + 1].t \notin {"Null", "Number"}
                 THEN [buf |-> buf, threw |-> <<"bad_variant_access">>]
          ELSE FillMatrix(rows, cols, idx + 1,
                          [buf EXCEPT ![idx + 1] = MatrixCell(row.v[j + 1])])

MatrixOutcome(st, ret, errs, ub, buf) ==
  [st |-> st, ret |-> ret, errs |-> errs, ub |-> ub, buf |-> buf]

\* *error = new osrmc_error{code, msg}; return -1;  (not under if (error))
MatrixReport(code, msg, errNull, buf) ==
  IF errNull
    THEN { MatrixOutcome("fault", RVoid, <<>>, "nullwrite", buf),
           MatrixOutcome("ret", RNum(-1), <<>>, "nullwrite", buf) }
    ELSE { MatrixOutcome("ret", RNum(-1), << ErrorRecord(code, msg) >>, "none", buf) }

MatrixThrow(what, errNull, buf) ==
  { MatrixOutcome("ret", RNum(-1), osrmc_error_from_exception(what, errNull), "none", buf) }

\* int osrmc_table_response_get_<key>_matrix(response, matrix, max_size, error)
\* buf is the caller's buffer (max_size doubles); bufNull: matrix == nullptr.
MatrixOutcomes(a, h, json, bufNull, buf, errNull) ==
  IF h = NULL /\ a.validates
    THEN { MatrixOutcome("ret", RNum(-1), osrmc_validate_response("table", errNull),
                         "none", buf) }
  ELSE IF h = NULL
    THEN { MatrixOutcome("fault", RVoid, <<>>, "nullderef", buf),
           MatrixOutcome("ret", RIndeterminate, <<>>, "nullderef", buf) }
  ELSE IF ~Has(json, a.key) THEN MatrixReport("NoTable", a.msg, errNull, buf)
  ELSE IF bufNull
    THEN MatrixReport("InvalidArgument", "Matrix buffer cannot be null", errNull, buf)
  ELSE IF json.v[a.key].t # "Array" THEN MatrixThrow("bad_variant_access", errNull, buf)
  ELSE IF Len(json.v[a.key].v) = 0
    THEN { MatrixOutcome("ret", RNum(0), <<>>, "none", buf) }
  ELSE IF json.v[a.key].v[1].t # "Array"
    THEN MatrixThrow("bad_variant_access", errNull, buf)
  ELSE LET rows == json.v[a.key].v
           cols == Len(rows[1].v)
           required_size == Len(rows) * cols
       IN IF Len(buf) < required_size
            THEN MatrixReport("BufferTooSmall", "Matrix buffer too small", errNull, buf)
            ELSE LET f == FillMatrix(rows, cols, 0, buf)
                 IN IF f.threw # <<>>
                      THEN MatrixThrow(f.threw[1], errNull, f.buf)
                      ELSE { MatrixOutcome("ret", RNum(required_size), <<>>, "none", f.buf) }

(***************************************************************************)
(* Responses of the engine the accessors are run on.  n is the number of   *)
(* items at every level; drop names the keys the response lacks.           *)
(***************************************************************************)
\* The Object of the given <<key, value>> pairs, without the dropped keys.
Obj(pairs, drop) ==
  JObj([k \in {p[1] : p \in pairs} \ drop |-> (CHOOSE p \in pairs : p[1] = k)[2]])

Rep(n, x) == JArr([i \in 1..n |-> x])

\* [longitude, latitude]; "latitude" dropped: an array of one element.
Location(drop) ==
  IF "latitude" \in drop THEN JArr(<< JNum(13) >>) ELSE JArr(<< JNum(13), JNum(52) >>)

Waypoint(drop) ==
  Obj({ <<"location", Location(drop)>>, <<"distance", JNum(3)>>, <<"name", JStr("a")>> },
      drop)

\* The i-th flag of an intersection: True and False in turn, or, with
\* "boolean" dropped, a Number.
Boolean(i, drop) ==
  IF "boolean" \in drop THEN JNum(i) ELSE IF i % 2 = 1 THEN JTrue ELSE JFalse

Lane(i, drop) == Obj({ <<"valid", Boolean(i, drop)>> }, drop)

Intersection(n, drop) ==
  Obj({ <<"location", Location(drop)>>,
        <<"entry", JArr([i \in 1..n |-> Boolean(i, drop)])>>,
        <<"lanes", JArr([i \in 1..n |-> Lane(i, drop)])>> }, drop)

\* The geometry of a route or a step: GeoJSON with n coordinate pairs, or,
\* with "geojson" dropped, an encoded polyline string.
Geometry(n, drop) ==
  IF "geojson" \in drop THEN JStr("p")
  ELSE Obj({ <<"type", JStr("LineString")>>, <<"coordinates", Rep(n, Location(drop))>> },
           drop)

Maneuver(drop) == Obj({ <<"type", JStr("turn")>>, <<"modifier", JStr("left")>> }, drop)

StepObject(n, drop) ==
  Obj({ <<"distance", JNum(5)>>, <<"duration", JNum(6)>>, <<"weight", JNum(7)>>,
        <<"ref", JStr("r")>>, <<"exits", JStr("e")>>, <<"maneuver", Maneuver(drop)>>,
        <<"geometry", Geometry(n, drop)>>,
        <<"intersections", Rep(n, Intersection(n, drop))>> }, drop)

\* The annotation of a leg: n values under every key, or, with "fencepost"
\* dropped, one value a segment and the n + 1 nodes the n segments run between.
Annotation(n, drop) ==
  Obj({ <<"duration", Rep(n, JNum(1))>>, <<"distance", Rep(n, JNum(2))>>,
        <<"speed", Rep(n, JNum(3))>>, <<"weight", Rep(n, JNum(4))>>,
        <<"nodes", Rep(IF "fencepost" \in drop THEN n + 1 ELSE n, JNum(5))>>,
        <<"datasources", Rep(n, JNum(0))>> }, drop)

LegObject(n, drop) ==
  Obj({ <<"distance", JNum(50)>>, <<"duration", JNum(60)>>, <<"weight", JNum(70)>>,
        <<"summary", JStr("s")>>,
        <<"steps", Rep(n, StepObject(n, drop))>>,
        <<"annotation", Annotation(n, drop)>> }, drop)

RouteObject(n, drop) ==
  Obj({ <<"distance", JNum(500)>>, <<"duration", JNum(600)>>, <<"weight", JNum(700)>>,
        <<"geometry", Geometry(n, drop)>>,
        <<"legs", Rep(n, LegObject(n, drop))>> }, drop)

NearestTree(n, drop) == Obj({ <<"waypoints", Rep(n, Waypoint(drop))>> }, drop)

RouteTree(n, drop) ==
  Obj({ <<"routes", Rep(n, RouteObject(n, drop))>>,
        <<"waypoints", Rep(n, Waypoint(drop))>> }, drop)

\* The i-th tracepoint: its distance, waypoint index and name tell it from the
\* others.  "unsnapped" dropped: the waypoint index is Null.
Tracepoint(i, drop) ==
  Obj({ <<"location", Location(drop)>>, <<"distance", JNum(i)>>,
        <<"waypoint_index", IF "unsnapped" \in drop THEN JNull ELSE JNum(i - 1)>>,
        <<"alternatives_count", JNum(0)>>,
        <<"name", JStr(IF i = 1 THEN "a" ELSE "b")>> }, drop)

\* "outlier" dropped: the first tracepoint is Null (the engine left it out).
Tracepoints(n, drop) ==
  JArr([i \in 1..n |-> IF "outlier" \in drop /\ i = 1 THEN JNull ELSE Tracepoint(i, drop)])

MatchTree(n, drop) ==
  Obj({ <<"matchings", Rep(n, RouteObject(n, drop))>>,
        <<"tracepoints", Tracepoints(n, drop)>> }, drop)

TripTree(n, drop) ==
  Obj({ <<"trips", Rep(n, RouteObject(n, drop))>>,
        <<"waypoints", Rep(n, Waypoint(drop))>> }, drop)

\* Cell (i, j) of a table, rows and columns counted from 0: a number that
\* tells the cell, or Null where the engine found no route; "mistyped": a
\* String in every row after the first.
Cell(i, j, nulls) ==
  IF nulls = "all" \/ (nulls = "diagonal" /\ i = j) THEN JNull
  ELSE IF nulls = "mistyped" /\ i > 0 THEN JStr("x")
  ELSE JNum(10 * i + j + 1)

\* "ragged": every row after the first is one cell shorter than the first.
Table(rows, cols, nulls) ==
  JArr([i \in 1..rows |->
          JArr([j \in 1..(IF nulls = "ragged" /\ i > 1 /\ cols > 0 THEN cols - 1 ELSE cols) |->
                  Cell(i - 1, j - 1, nulls)])])

TableTree(rows, cols, nulls, drop) ==
  Obj({ <<"durations", Table(rows, cols, nulls)>>,
        <<"distances", Table(rows, cols, nulls)>>,
        <<"sources", Rep(rows, Waypoint(drop))>>,
        <<"destinations", Rep(cols, Waypoint(drop))>> }, drop)

RECURSIVE Mistype(_, _)
\* The tree with another variant under every member named key: a Number
\* where a String was, a String where anything else was.
Mistype(node, key) ==
  CASE node.t = "Object" ->
         JObj([k \in DOMAIN node.v |->
                 IF k # key THEN Mistype(node.v[k], key)
                 ELSE IF node.v[k].t = "String" THEN JNum(0) ELSE JStr("x")])
    [] node.t = "Array" -> JArr([i \in 1..Len(node.v) |-> Mistype(node.v[i], key)])
    [] OTHER -> node

\* The bytes of a vector tile.
TileBytes(n) == [t |-> "Bytes", v |-> [i \in 1..n |-> 255]]

Holder(svc, json) == [svc |-> svc, json |-> json]

\* A slot of the heap that holds no response.
Free == Holder("none", JNull)

Counts == 0..MaxItems

\* The annotations a request may leave out, in the order the count accessors
\* probe them.
AnnotationKinds == << "duration", "distance", "speed", "weight", "nodes", "datasources" >>

AnnotationDrops ==
  { {AnnotationKinds[i] : i \in 1..n} \cup {"fencepost"} : n \in 0..Len(AnnotationKinds) }

NearestDrops == { {"waypoints"}, {"distance"}, {"location"}, {"latitude"}, {"name"} }

RouteDrops ==
  { {"routes", "waypoints"}, {"distance"}, {"duration"}, {"weight"}, {"legs"},
    {"steps"}, {"annotation"}, {"intersections"}, {"location"}, {"latitude"},
    {"summary"}, {"ref"}, {"exits"}, {"maneuver"}, {"type"}, {"modifier"},
    {"geometry"}, {"geojson"}, {"coordinates"}, {"entry"}, {"lanes"}, {"valid"},
    {"boolean"}, {"name"} } \cup AnnotationDrops

TableDrops ==
  { {"durations"}, {"distances"}, {"sources"}, {"durations", "sources"}, {"name"},
    {"destinations"}, {"durations", "destinations"} }

\* A table request may leave the waypoints out of the response.
WaypointDrops == { {"sources"}, {"destinations"}, {"sources", "destinations"} }

MatchDrops ==
  { {"matchings", "tracepoints"}, {"distance"}, {"location"}, {"outlier"},
    {"waypoint_index"}, {"name"}, {"unsnapped"}, {"alternatives_count"} }

TripDrops == { {"trips"}, {"distance"}, {"waypoints"} }

SampleHolders ==
  {Holder("nearest", NearestTree(n, {})) : n \in Counts}
    \cup {Holder("nearest", NearestTree(1, d)) : d \in NearestDrops}
    \cup {Holder("route", RouteTree(n, {})) : n \in Counts}
    \cup {Holder("route", RouteTree(1, d)) : d \in RouteDrops}
    \cup {Holder("table", TableTree(r, c, nulls, {})) :
            r \in Counts, c \in Counts, nulls \in {"none", "diagonal", "all"}}
    \cup {Holder("table", TableTree(1, 1, "none", d)) : d \in TableDrops}
    \cup {Holder("table", TableTree(r, c, k, {})) :
            r \in Counts \ {0}, c \in Counts \ {0}, k \in {"mistyped", "ragged"}}
    \cup {Holder("table", TableTree(r, c, "none", d)) :
            r \in Counts, c \in Counts, d \in WaypointDrops}
    \cup {Holder("match", MatchTree(n, {})) : n \in Counts}
    \cup {Holder("match", MatchTree(1, d)) : d \in MatchDrops}
    \cup {Holder("match", MatchTree(n, {"outlier"})) : n \in Counts}
    \cup {Holder("trip", TripTree(n, {})) : n \in Counts}
    \cup {Holder("trip", TripTree(1, d)) : d \in TripDrops}
    \cup {Holder("tile", TileBytes(n)) : n \in Counts}
    \cup {Holder("nearest", Mistype(NearestTree(1, {}), k)) : k \in UNION NearestDrops}
    \cup {Holder("route", Mistype(RouteTree(1, {}), k)) : k \in UNION RouteDrops}
    \cup {Holder("table", Mistype(TableTree(1, 1, "none", {}), k)) : k \in UNION TableDrops}
    \cup {Holder("match", Mistype(MatchTree(1, {}), k)) : k \in UNION MatchDrops}
    \cup {Holder("trip", Mistype(TripTree(1, {}), k)) : k \in UNION TripDrops}

(***************************************************************************)
(* The accessor specification: a caller that holds one response, as a      *)
(* service call returned it, and calls the accessors on it or on a null    *)
(* handle, with every index argument in 0..MaxItems and with or without    *)
(* an error out-parameter.                                                 *)
(***************************************************************************)
OSRMC_ALGORITHM_CH == 0

OSRMC_ALGORITHM_MLD == 1

\* osrm::EngineConfig as osrmc_config_construct leaves it.
\* storage_config: the datasets its osrm::StorageConfig was last built with.
EngineConfig ==
  [algorithm |-> OSRMC_ALGORITHM_CH, disable_feature_dataset |-> <<>>,
   storage_config |-> <<>>]

\* No call has been made, or its result has been taken.
NoCall == [fn |-> "none"]

\* Cells of the largest table of the samples.
MaxCells == MaxItems * MaxItems

Handles == 1..MaxHandles

Live(svc) == {h \in Handles : heap[h].svc = svc}

JsonOf(h) == IF h = NULL THEN JNull ELSE heap[h].json

Init ==
  /\ heap \in {[h \in Handles |-> IF h = 1 THEN s ELSE Free] : s \in SampleHolders}
  /\ config = EngineConfig
  /\ matrix = <<>>
  /\ last = NoCall
  /\ pc = "idle"

\* The caller calls accessor a and the call ends.
Call(a) ==
  /\ pc = "idle"
  /\ \E h \in {NULL} \cup Live(a.svc), args \in [1..a.nargs -> 0..MaxItems],
        errNull \in BOOLEAN :
       \E o \in AccessorOutcomes(a, h, JsonOf(h), args, errNull) :
         /\ heap' = IF h = NULL THEN heap ELSE [heap EXCEPT ![h].json = o.node]
         /\ last' = [fn |-> a.name, svc |-> a.svc, h |-> h, args |-> args,
                     errNull |-> errNull, bufNull |-> FALSE, cap |-> 0,
                     sent |-> a.sent, st |-> o.st, ret |-> o.ret, errs |-> o.errs, ub |-> o.ub,
                     pre |-> JsonOf(h)]
         /\ pc' = IF o.st = "fault" THEN "crashed" ELSE "returned"
  /\ UNCHANGED <<config, matrix>>

NearestAccessor == \E a \in NearestAccessors : Call(a)

RouteAccessor == \E a \in RouteAccessors : Call(a)

TableAccessor == \E a \in TableAccessors : Call(a)

MatchAccessor == \E a \in MatchAccessors : Call(a)

TripAccessor == \E a \in TripAccessors : Call(a)

TileAccessor == \E a \in TileAccessors : Call(a)

\* The caller passes a buffer of cap doubles (or no buffer) and max_size = cap.
GetMatrix ==
  /\ pc = "idle"
  /\ \E a \in MatrixAccessors, h \in {NULL} \cup Live("table"), cap \in 0..MaxCells,
        bufNull \in BOOLEAN, errNull \in BOOLEAN :
       \E o \in MatrixOutcomes(a, h, JsonOf(h), bufNull, [i \in 1..cap |-> Unwritten],
                               errNull) :
         /\ matrix' = o.buf
         /\ last' = [fn |-> a.name, svc |-> a.svc, h |-> h, args |-> <<>>,
                     errNull |-> errNull, bufNull |-> bufNull, cap |-> cap,
                     sent |-> RNum(-1), st |-> o.st, ret |-> o.ret, errs |-> o.errs, ub |-> o.ub,
                     pre |-> JsonOf(h)]
         /\ pc' = IF o.st = "fault" THEN "crashed" ELSE "returned"
  /\ UNCHANGED <<heap, config>>

\* The caller has looked at the result, frees the error record and its buffer.
Ack ==
  /\ pc = "returned"
  /\ pc' = "idle"
  /\ last' = NoCall
  /\ matrix' = <<>>
  /\ UNCHANGED <<heap, config>>

Next ==
  \/ NearestAccessor
  \/ RouteAccessor
  \/ TableAccessor
  \/ MatchAccessor
  \/ TripAccessor
  \/ TileAccessor
  \/ GetMatrix
  \/ Ack

Spec == Init /\ [][Next]_vars

(***************************************************************************)
(* The service calls.  The engine (osrm::OSRM, outside this repository)    *)
(* is free in what it answers: a status, and a result slot that holds a    *)
(* JSON object, a byte string or a flatbuffer; or it throws.               *)
(***************************************************************************)
Services == {"nearest", "route", "table", "match", "trip", "tile"}

EngineAnswer(status, kind, json) ==
  [throws |-> FALSE, status |-> status, kind |-> kind, json |-> json]

EngineThrows == [throws |-> TRUE, status |-> "Error", kind |-> "Object", json |-> JNull]

\* The response of a service to a request of one coordinate.
Response(svc) ==
  CASE svc = "nearest" -> NearestTree(1, {})
    [] svc = "route" -> RouteTree(1, {})
    [] svc = "table" -> TableTree(1, 1, "none", {})
    [] svc = "match" -> MatchTree(1, {})
    [] svc = "trip" -> TripTree(1, {})
    [] svc = "tile" -> TileBytes(1)

\* Error objects: code and message, a message alone, a code alone, an empty
\* code, a code that is no String, a message that is no String.
ErrorObjects ==
  { Obj({ <<"code", JStr("NoRoute")>>, <<"message", JStr("Impossible route")>> }, {}),
    Obj({ <<"message", JStr("failed")>> }, {}),
    Obj({ <<"code", JStr("NoRoute")>> }, {}),
    Obj({ <<"code", JStr("")>>, <<"message", JStr("failed")>> }, {}),
    Obj({ <<"code", JNum(5)>>, <<"message", JStr("failed")>> }, {}),
    Obj({ <<"code", JStr("NoRoute")>>, <<"message", JNull>> }, {}) }

EngineAnswers(svc) ==
  { EngineThrows,
    EngineAnswer("Ok", IF svc = "tile" THEN "String" ELSE "Object", Response(svc)),
    EngineAnswer("Ok", IF svc = "tile" THEN "Object" ELSE "String",
                 IF svc = "tile" THEN NearestTree(1, {}) ELSE TileBytes(1)),
    EngineAnswer("Ok", "Flatbuffer", JNull),
    EngineAnswer("Error", "String", TileBytes(0)),
    EngineAnswer("Error", "Flatbuffer", JNull) }
    \cup {EngineAnswer("Error", "Object", e) : e \in ErrorObjects}

\* static bool osrmc_validate_osrm(osrm, error): the records it writes.
osrmc_validate_osrm(osrm, errNull) ==
  IF osrm = NULL /\ ~errNull
    THEN << ErrorRecord("InvalidArgument", "OSRM instance must not be null") >>
    ELSE <<>>

\* std::get<String>(json.values[key]).value: the String, or the exception.
\* A key the object lacks is inserted with an empty String.
StringMember(json, key) ==
  IF ~Has(json, key) THEN [threw |-> <<>>, value |-> ""]
  ELSE IF json.v[key].t = "String" THEN [threw |-> <<>>, value |-> json.v[key].v]
  ELSE [threw |-> <<"bad_variant_access">>, value |-> ""]

\* static void osrmc_error_from_json(json, error): the records it writes.
osrmc_error_from_json(json, errNull) ==
  LET code == StringMember(json, "code")
      message == StringMember(json, "message")
  IN IF errNull THEN <<>>
     ELSE IF code.threw # <<>> THEN osrmc_error_from_exception(code.threw[1], errNull)
     ELSE IF message.threw # <<>>
       THEN osrmc_error_from_exception(message.threw[1], errNull)
     ELSE << ErrorRecord(IF code.value = "" THEN "Unknown" ELSE code.value,
                         message.value) >>

\* "NearestError", "RouteError", ...: the code when the engine fails and the
\* result slot holds no object.
ServiceErrorCode(svc) == ResponseName(svc) \o "Error"

ServiceErrorMessage(svc) ==
  IF svc = "tile" THEN "Failed to generate tile" ELSE ResponseName(svc) \o " request failed"

\* What a service call gives the caller: the handle, the records written,
\* whether the engine was called, and the holder it allocated.
ServiceOutcome(ret, errs, dispatched, holder) ==
  [ret |-> ret, errs |-> errs, dispatched |-> dispatched, holder |-> holder]

\* if (error) { *error = new osrmc_error{code, msg}; } return nullptr;
ServiceFailed(code, msg, errNull, dispatched) ==
  ServiceOutcome(NULL, IF errNull THEN <<>> ELSE << ErrorRecord(code, msg) >>,
                 dispatched, Free)

\* catch (const std::exception& e) { osrmc_error_from_exception(e, error); return nullptr; }
ServiceCaught(what, errNull) ==
  ServiceOutcome(NULL, osrmc_error_from_exception(what, errNull), TRUE, Free)

\* The part of every service call after the arguments are checked, for the
\* five services whose result is a JSON object.  h is the address new
\* returns.
JsonService(svc, e, h, errNull) ==
  IF e.throws THEN ServiceCaught("engine", errNull)
  ELSE IF e.status = "Ok"
    THEN IF e.kind = "Object"
           THEN ServiceOutcome(h, <<>>, TRUE, Holder(svc, e.json))
           ELSE ServiceFailed("InvalidResponse", "Unexpected response type", errNull, TRUE)
  ELSE IF e.kind = "Object"
    THEN ServiceOutcome(NULL, osrmc_error_from_json(e.json, errNull), TRUE, Free)
  ELSE ServiceFailed(ServiceErrorCode(svc), ServiceErrorMessage(svc), errNull, TRUE)

\* osrmc_tile after the arguments are checked: on Ok the result is taken as
\* a std::string by std::get, with no holds_alternative before it.
TileService(e, h, errNull) ==
  IF e.throws THEN ServiceCaught("engine", errNull)
  ELSE IF e.status = "Ok"
    THEN IF e.kind # "String" THEN ServiceCaught("bad_variant_access", errNull)
         ELSE ServiceOutcome(h, <<>>, TRUE, Holder("tile", e.json))
  ELSE IF e.kind = "Object"
    THEN ServiceOutcome(NULL, osrmc_error_from_json(e.json, errNull), TRUE, Free)
  ELSE ServiceFailed(ServiceErrorCode("tile"), ServiceErrorMessage("tile"), errNull, TRUE)

\* if (!osrmc_validate_osrm(osrm, error) || !params) { if (error) { *error =
\* new osrmc_error{"InvalidArgument", ...}; } return nullptr; }
\* The record osrmc_validate_osrm wrote is overwritten in the slot.
ServiceCall(svc, osrm, params, e, h, errNull) ==
  IF osrm = NULL \/ params = NULL
    THEN LET f == ServiceFailed("InvalidArgument",
                                "OSRM instance and params must not be null",
                                errNull, FALSE)
         IN [f EXCEPT !.errs = osrmc_validate_osrm(osrm, errNull) \o f.errs]
  ELSE IF svc = "tile" THEN TileService(e, h, errNull)
  ELSE JsonService(svc, e, h, errNull)

(***************************************************************************)
(* The service specification: a caller with an engine and a parameter      *)
(* object that makes service calls, with or without them and with or       *)
(* without an error out-parameter, destroys the responses it got, and      *)
(* selects the algorithm of its configuration.  At most MaxHandles         *)
(* responses are live at once.                                             *)
(***************************************************************************)
InitService ==
  /\ heap = [h \in Handles |-> Free]
  /\ config = EngineConfig
  /\ matrix = <<>>
  /\ last = NoCall
  /\ pc = "idle"

\* The live engine and the live parameter object of the caller.
LiveObject == 1

FreeSlots == {h \in Handles : heap[h] = Free}

\* osrmc_<svc>(osrm, params, error)
Service(svc) ==
  /\ pc = "idle"
  /\ FreeSlots # {}
  /\ \E osrm \in {NULL, LiveObject}, params \in {NULL, LiveObject},
        e \in EngineAnswers(svc), h \in FreeSlots, errNull \in BOOLEAN :
       LET o == ServiceCall(svc, osrm, params, e, h, errNull) IN
         /\ heap' = IF o.ret = NULL THEN heap ELSE [heap EXCEPT ![o.ret] = o.holder]
         /\ last' = [fn |-> "osrmc_" \o svc, svc |-> svc, osrm |-> osrm,
                     params |-> params, errNull |-> errNull,
                     answer |-> IF o.dispatched THEN e ELSE EngineThrows,
                     st |-> "ret", ret |-> o.ret, errs |-> o.errs,
                     dispatched |-> o.dispatched, pre |-> heap]
         /\ pc' = "returned"
  /\ UNCHANGED <<config, matrix>>

osrmc_nearest == Service("nearest")

osrmc_route == Service("route")

osrmc_table == Service("table")

osrmc_match == Service("match")

osrmc_trip == Service("trip")

osrmc_tile == Service("tile")

\* blob->data after osrmc_render_json(blob->data, object): the text of the
\* tree, a std::string of its own.
Rendered(json) == [t |-> "Text", of |-> json]

\* struct osrmc_blob { std::string data; }
Blob(json) == Holder("blob", Rendered(json))

Blobs == {h \in Handles : heap[h].svc = "blob"}

\* A faulty variant of the delete below: the texts rendered from the tree go
\* with it, as if a blob were a view of the response.
DeleteWithBlobs(hp, h) ==
  [g \in Handles |->
     IF g = h \/ (hp[g].svc = "blob" /\ hp[g].json = Rendered(hp[h].json))
       THEN Free ELSE hp[g]]

\* delete reinterpret_cast<T*>(handle);
Delete(hp, h) == [hp EXCEPT ![h] = Free]

\* osrmc_<svc>_response_destruct(response): if (response) { delete ...; }
osrmc_response_destruct ==
  /\ pc = "idle"
  /\ \E h \in {NULL} \cup (Handles \ (FreeSlots \cup Blobs)) :
       heap' = IF h = NULL THEN heap ELSE Delete(heap, h)
  /\ UNCHANGED <<config, matrix, last, pc>>

\* osrmc_<svc>_response_json(response, error), for the five services whose
\* response is a tree: osrmc_validate_<svc>_response, then
\* auto* blob = new osrmc_blob; osrmc_render_json(blob->data, json);
osrmc_response_json ==
  /\ pc = "idle"
  /\ FreeSlots # {}
  /\ \E svc \in Services \ {"tile"}, b \in FreeSlots, errNull \in BOOLEAN :
       \E h \in {NULL} \cup Live(svc) :
         LET call == [fn |-> "osrmc_" \o svc \o "_response_json", svc |-> "blob",
                      h |-> h, errNull |-> errNull, st |-> "ret", dispatched |-> FALSE,
                      pre |-> heap]
         IN IF h = NULL
              THEN /\ heap' = heap
                   /\ last' = call @@ [ret |-> NULL,
                                       errs |-> osrmc_validate_response(svc, errNull)]
              ELSE /\ heap' = [heap EXCEPT ![b] = Blob(heap[h].json)]
                   /\ last' = call @@ [ret |-> b, errs |-> <<>>]
  /\ pc' = "returned"
  /\ UNCHANGED <<config, matrix>>

\* void osrmc_blob_destruct(osrmc_blob_t blob): if (blob) { delete ...; }
osrmc_blob_destruct ==
  /\ pc = "idle"
  /\ \E b \in {NULL} \cup Blobs :
       heap' = IF b = NULL THEN heap ELSE Delete(heap, b)
  /\ UNCHANGED <<config, matrix, last, pc>>

\* static bool osrmc_validate_config(config, error): the records it writes.
osrmc_validate_config(cfg, errNull) ==
  IF cfg = NULL /\ ~errNull
    THEN << ErrorRecord("InvalidArgument", "Config must not be null") >>
    ELSE <<>>

\* void osrmc_config_set_algorithm(config, algorithm, error)
\* The default case writes *error with no if (error) before it.
osrmc_config_set_algorithm ==
  /\ pc = "idle"
  /\ \E cfg \in {NULL, LiveObject},
        algorithm \in {OSRMC_ALGORITHM_CH, OSRMC_ALGORITHM_MLD, OSRMC_ALGORITHM_MLD + 1},
        errNull \in BOOLEAN :
       LET known == algorithm \in {OSRMC_ALGORITHM_CH, OSRMC_ALGORITHM_MLD}
           call == [fn |-> "osrmc_config_set_algorithm", svc |-> "config",
                    cfg |-> cfg, algorithm |-> algorithm, errNull |-> errNull,
                    ret |-> NULL, dispatched |-> FALSE, pre |-> heap]
       IN IF cfg = NULL
            THEN /\ config' = config
                 /\ last' = call @@ [st |-> "ret", ub |-> "none",
                                     errs |-> osrmc_validate_config(cfg, errNull)]
                 /\ pc' = "returned"
          ELSE IF known
            THEN /\ config' = [config EXCEPT !.algorithm = algorithm]
                 /\ last' = call @@ [st |-> "ret", ub |-> "none", errs |-> <<>>]
                 /\ pc' = "returned"
          ELSE IF ~errNull
            THEN /\ config' = config
                 /\ last' = call @@ [st |-> "ret", ub |-> "none",
                                     errs |-> << ErrorRecord("InvalidAlgorithm",
                                                             "Unknown algorithm type") >>]
                 /\ pc' = "returned"
          ELSE \E st \in {"fault", "ret"} :
                 /\ config' = config
                 /\ last' = call @@ [st |-> st, ub |-> "nullwrite", errs |-> <<>>]
                 /\ pc' = IF st = "fault" THEN "crashed" ELSE "returned"
  /\ UNCHANGED <<heap, matrix>>

NextService ==
  \/ osrmc_nearest
  \/ osrmc_route
  \/ osrmc_table
  \/ osrmc_match
  \/ osrmc_trip
  \/ osrmc_tile
  \/ osrmc_response_destruct
  \/ osrmc_response_json
  \/ osrmc_blob_destruct
  \/ osrmc_config_set_algorithm
  \/ Ack

SpecService == InitService /\ [][NextService]_vars

(***************************************************************************)
(* Properties.  A call is seen when pc is "returned" (it came back) or     *)
(* "crashed" (the process faulted in it); last describes it.               *)
(***************************************************************************)
Accessors ==
  NearestAccessors \cup RouteAccessors \cup TableAccessors \cup MatchAccessors
    \cup TripAccessors \cup TileAccessors

AccessorNames == {a.name : a \in Accessors}

MatrixNames == {a.name : a \in MatrixAccessors}

AccessorOf(name) == CHOOSE a \in Accessors : a.name = name

MatrixOf(name) == CHOOSE a \in MatrixAccessors : a.name = name

\* The code in the error slot after the call ("" when nothing was written).
SlotCode(l) == IF l.errs = <<>> THEN "" ELSE l.errs[Len(l.errs)].code

\* The caller's buffer before the call.
FreshBuffer(cap) == [i \in 1..cap |-> Unwritten]

\* The same call made with an error out-parameter: what it would report.
WithSlot(l) ==
  IF l.fn \in MatrixNames
    THEN MatrixOutcomes(MatrixOf(l.fn), l.h, l.pre, l.bufNull, FreshBuffer(l.cap), FALSE)
    ELSE AccessorOutcomes(AccessorOf(l.fn), l.h, l.pre, l.args, FALSE)

\* C1: every response accessor called with a null response handle returns the
\* sentinel of its return type, reports InvalidArgument when the error slot is
\* non-null, and never dereferences the null handle.
C1_NullHandleRejected ==
  (pc # "idle" /\ last.h = NULL) =>
    /\ pc = "returned"
    /\ last.ub = "none"
    /\ last.ret = last.sent
    /\ (~last.errNull => SlotCode(last) = "InvalidArgument")

\* A validating accessor has been called with a null handle and an error slot.
C1_ValidatedNullCall ==
  /\ pc = "returned"
  /\ last.fn = "osrmc_route_response_distance"
  /\ last.h = NULL
  /\ ~last.errNull
  /\ SlotCode(last) = "InvalidArgument"

\* C2: a call made with a null error out-parameter completes on every failure
\* path by returning the sentinel, without writing through the null pointer.
C2_NullErrorSlotSafe ==
  (pc # "idle" /\ last.errNull /\ last.h # NULL /\ last.ub # "wildread") =>
    /\ pc = "returned"
    /\ last.ub = "none"
    /\ last.errs = <<>>
    /\ ((\E o \in WithSlot(last) : o.errs # <<>>) => last.ret = last.sent)

\* A failure path whose write is under if (error) has been taken with a null
\* error out-parameter.
C2_GuardedFailure ==
  /\ pc = "returned"
  /\ last.fn = "osrmc_route_response_leg_distance"
  /\ last.errNull
  /\ last.h # NULL
  /\ \E o \in WithSlot(last) : o.errs # <<>> /\ o.errs[1].code = "IndexOutOfBounds"

\* C3: no accessor modifies the held tree: after any accessor call on a live
\* holder the tree (and so every result and the JSON text) is what it was.
C3_TreeUnchanged ==
  (pc # "idle" /\ last.h # NULL) => heap[last.h].json = last.pre

\* An accessor has read a key the tree lacks through find() and came back.
C3_MissingKeyRead ==
  /\ pc = "returned"
  /\ last.fn = "osrmc_route_response_alternative_count"
  /\ last.h # NULL
  /\ ~Has(last.pre, "routes")
  /\ last.ret = RNum(0)

\* C4: with a non-null error slot a service call ends in exactly one of
\* Succeeded (a freshly allocated holder is returned, nothing is written to the
\* slot) or Failed (a null handle, a record in the slot); a null engine or a
\* null parameter object ends in Failed with InvalidArgument and no dispatch.
C4_ServiceOutcome ==
  (pc = "returned" /\ last.svc \in Services /\ ~last.errNull) =>
    LET Succeeded == /\ last.ret \in Handles
                     /\ last.pre[last.ret] = Free
                     /\ heap[last.ret].svc = last.svc
                     /\ \A h \in Handles \ {last.ret} : heap[h] = last.pre[h]
                     /\ last.errs = <<>>
        Failed == /\ last.ret = NULL
                  /\ heap = last.pre
                  /\ last.errs # <<>>
    IN /\ Succeeded # Failed
       /\ (last.osrm = NULL \/ last.params = NULL) =>
            (Failed /\ SlotCode(last) = "InvalidArgument" /\ ~last.dispatched)

\* A service call with a null engine has failed while a response of an earlier,
\* successful call is live.
C4_FailedAfterSuccess ==
  /\ pc = "returned"
  /\ last.svc \in Services
  /\ ~last.errNull
  /\ last.osrm = NULL
  /\ last.ret = NULL
  /\ FreeSlots # Handles

\* The variant a service expects in the result slot.
Expected(svc) == IF svc = "tile" THEN "String" ELSE "Object"

\* C5: for each of the six service calls, an OK status with an unexpected
\* variant in the result slot gives a null handle and InvalidResponse.
C5_InvalidResponse ==
  (/\ pc = "returned"
   /\ last.svc \in Services
   /\ last.dispatched
   /\ ~last.answer.throws
   /\ last.answer.status = "Ok"
   /\ last.answer.kind # Expected(last.svc)) =>
    /\ last.ret = NULL
    /\ (~last.errNull => SlotCode(last) = "InvalidResponse")

\* osrmc_route has answered an OK status with a byte string by InvalidResponse.
C5_RouteUnexpected ==
  /\ pc = "returned"
  /\ last.svc = "route"
  /\ last.dispatched
  /\ last.answer.status = "Ok"
  /\ last.answer.kind = "String"
  /\ SlotCode(last) = "InvalidResponse"

\* The response of a service with n items at every level.
UniformTree(svc, n) ==
  CASE svc = "nearest" -> NearestTree(n, {})
    [] svc = "route" -> RouteTree(n, {})
    [] svc = "match" -> MatchTree(n, {})
    [] svc = "trip" -> TripTree(n, {})

\* C6: on a response with N >= 1 items at a level, an indexed accessor
\* reports IndexOutOfBounds when an index is N (or more) and the indices
\* before it are in range, and never when every index is at most N-1.
C6_IndexBounds ==
  (/\ pc # "idle"
   /\ last.fn \in AccessorNames
   /\ last.svc \in {"nearest", "route", "match", "trip"}
   /\ last.h # NULL
   /\ ~last.errNull) =>
    \A n \in 1..MaxItems :
      last.pre = UniformTree(last.svc, n) =>
        ((SlotCode(last) = "IndexOutOfBounds") <=>
           (\E k \in 1..Len(last.args) : last.args[k] >= n))

\* The innermost index is one past the last intersection, the outer ones are
\* the last route, leg and step.
C6_OnePastLast ==
  /\ pc = "returned"
  /\ last.fn = "osrmc_route_response_step_intersection_location_latitude"
  /\ last.pre = RouteTree(MaxItems, {})
  /\ last.args = << MaxItems - 1, MaxItems - 1, MaxItems - 1, MaxItems >>
  /\ SlotCode(last) = "IndexOutOfBounds"

\* last is a call on a table of r rows and c columns.
OnTable(l, r, c) == \E nulls \in {"none", "diagonal", "all"} : l.pre = TableTree(r, c, nulls, {})

\* C7: osrmc_table_response_duration and osrmc_table_response_distance called
\* with from or to past the end of the matrix report IndexOutOfBounds and
\* return +Infinity.
C7_TableIndexBounds ==
  (/\ pc # "idle"
   /\ last.fn \in {"osrmc_table_response_duration", "osrmc_table_response_distance"}
   /\ last.h # NULL) =>
    \A r \in Counts, c \in Counts :
      (OnTable(last, r, c) /\ (last.args[1] >= r \/ last.args[2] >= c)) =>
        /\ last.ret = RInf
        /\ (~last.errNull => SlotCode(last) = "IndexOutOfBounds")

\* A cell past the last row has been asked for and +Infinity came back.
C7_PastLastRow ==
  /\ pc = "returned"
  /\ last.fn = "osrmc_table_response_duration"
  /\ OnTable(last, MaxItems, MaxItems)
  /\ last.args = << MaxItems, 0 >>
  /\ ~last.errNull
  /\ last.ret = RInf

\* The response of a service, one item at every level, without the key.
TreeLacking(svc, key) ==
  CASE svc = "nearest" -> NearestTree(1, {key})
    [] svc = "route" -> RouteTree(1, {key})
    [] svc = "table" -> TableTree(1, 1, "none", {key})
    [] svc = "match" -> MatchTree(1, {key})
    [] svc = "trip" -> TripTree(1, {key})

\* Keys of a duration, a distance or a weight (a table cell lies under
\* "durations" or "distances"), and the key of a coordinate pair.
MetricKeys == {"distance", "duration", "weight", "durations", "distances"}

CoordinateKeys == {"location"}

\* last is an accessor call, all indices 0, on a response that lacks the
\* field the accessor reads.
FieldAbsent(l) ==
  /\ l.fn \in AccessorNames
  /\ l.svc # "tile"
  /\ l.h # NULL
  /\ \A k \in 1..Len(l.args) : l.args[k] = 0
  /\ l.pre = TreeLacking(l.svc, AccessorOf(l.fn).field)

\* C8: every accessor of a duration, distance or weight returns +Infinity
\* (never 0 or NaN) when the field is absent; every coordinate or location
\* accessor returns NaN.
C8_AbsentFieldSentinel ==
  (pc = "returned" /\ last.ub = "none" /\ FieldAbsent(last)) =>
    /\ AccessorOf(last.fn).field \in MetricKeys => last.ret = RInf
    /\ AccessorOf(last.fn).field \in CoordinateKeys => last.ret = RNaN

\* The distance of a leg has been asked for on a response whose legs have none.
C8_LegDistanceAbsent ==
  /\ pc = "returned"
  /\ last.fn = "osrmc_route_response_leg_distance"
  /\ FieldAbsent(last)
  /\ last.ret = RInf

\* What cell (i, j) of a table of the samples is flattened to.
Flattened(i, j, nulls) ==
  IF nulls = "all" \/ (nulls = "diagonal" /\ i = j) THEN RInf ELSE RNum(10 * i + j + 1)

\* C9: given an N x M matrix and a buffer of capacity >= N*M, the matrix
\* accessors write cell (i,j) to position i*M+j, +Infinity for a Null cell and
\* the cell's number otherwise, and return N*M.
C9_RowMajorMatrix ==
  (pc # "idle" /\ last.fn \in MatrixNames /\ last.h # NULL /\ ~last.bufNull) =>
    \A r \in Counts, c \in Counts, nulls \in {"none", "diagonal", "all"} :
      (last.pre = TableTree(r, c, nulls, {}) /\ last.cap >= r * c) =>
        /\ pc = "returned"
        /\ last.ret = RNum(r * c)
        /\ \A i \in 0..(r - 1), j \in 0..(c - 1) :
             matrix[i * c + j + 1] = Flattened(i, j, nulls)

\* The largest table, Null on its diagonal, has been flattened into a buffer
\* of exactly its size.
C9_FullTableFlattened ==
  /\ pc = "returned"
  /\ last.fn = "osrmc_table_response_get_duration_matrix"
  /\ last.pre = TableTree(MaxItems, MaxItems, "diagonal", {})
  /\ last.cap = MaxCells
  /\ last.ret = RNum(MaxCells)
  /\ matrix[1] = RInf

\* C10: when max_size is smaller than N*M the matrix accessors report
\* BufferTooSmall, return -1 and leave every element of the buffer unchanged.
C10_BufferTooSmall ==
  (pc # "idle" /\ last.fn \in MatrixNames /\ last.h # NULL /\ ~last.bufNull) =>
    \A r \in Counts, c \in Counts :
      (OnTable(last, r, c) /\ last.cap < r * c) =>
        /\ pc = "returned"
        /\ last.ret = RNum(-1)
        /\ matrix = FreshBuffer(last.cap)
        /\ (~last.errNull => SlotCode(last) = "BufferTooSmall")

\* A buffer one cell too small has been passed with an error slot.
C10_OneCellShort ==
  /\ pc = "returned"
  /\ last.fn = "osrmc_table_response_get_distance_matrix"
  /\ OnTable(last, MaxItems, MaxItems)
  /\ last.cap = MaxCells - 1
  /\ ~last.errNull
  /\ SlotCode(last) = "BufferTooSmall"
  /\ matrix = FreshBuffer(last.cap)

\* The accessors of a field of a tracepoint.
TracepointFields ==
  { "osrmc_match_response_tracepoint_latitude",
    "osrmc_match_response_tracepoint_waypoint_index",
    "osrmc_match_response_tracepoint_name",
    "osrmc_match_response_tracepoint_distance" }

\* What the accessor hands out of the tracepoint at index k (counted from 0).
OwnField(fn, k) ==
  CASE fn = "osrmc_match_response_tracepoint_latitude" -> RNum(52)
    [] fn = "osrmc_match_response_tracepoint_waypoint_index" -> RNum(k)
    [] fn = "osrmc_match_response_tracepoint_name" -> RStr(IF k = 0 THEN "a" ELSE "b")
    [] fn = "osrmc_match_response_tracepoint_distance" -> RNum(k + 1)

\* C11: in a match response whose "tracepoints" holds Null at index k, every
\* tracepoint field accessor called with index k returns its sentinel and
\* reports NullTracepoint; called with the index of a tracepoint that is an
\* object it returns that tracepoint's own field, with no error.
C11_NullTracepoint ==
  (pc # "idle" /\ last.fn \in TracepointFields /\ last.h # NULL) =>
    \A n \in 1..MaxItems :
      last.pre = MatchTree(n, {"outlier"}) =>
        /\ last.args[1] = 0 =>
             /\ pc = "returned"
             /\ last.ret = last.sent
             /\ (~last.errNull => SlotCode(last) = "NullTracepoint")
        /\ (last.args[1] > 0 /\ last.args[1] < n) =>
             /\ pc = "returned"
             /\ last.errs = <<>>
             /\ last.ret = OwnField(last.fn, last.args[1])

\* The name of the tracepoint after a Null one has been read.
C11_NameAfterNull ==
  /\ pc = "returned"
  /\ last.fn = "osrmc_match_response_tracepoint_name"
  /\ last.pre = MatchTree(MaxItems, {"outlier"})
  /\ last.args = << 1 >>
  /\ last.ret = RStr("b")

\* The keys an accessor cannot do without: those it reads with at(), with
\* operator[] or with a find() whose miss it reports.
RequiredKeys(a) ==
  {a.prog[i].key : i \in {j \in 1..Len(a.prog) : a.prog[j].op \in {"at", "br", "find", "need"}}}

\* The field-specific codes the accessors report for a missing key.
NoFieldCodes ==
  UNION {{a.prog[i].code : i \in {j \in 1..Len(a.prog) : a.prog[j].op \in {"find", "need"}}} :
           a \in Accessors} \ {"UnsupportedGeometry"}

\* last is an accessor call, all indices 0, on a response that lacks a key
\* the accessor cannot do without.
RequiredKeyMissing(l) ==
  /\ l.fn \in AccessorNames
  /\ l.svc # "tile"
  /\ l.h # NULL
  /\ \A k \in 1..Len(l.args) : l.args[k] = 0
  /\ \E key \in RequiredKeys(AccessorOf(l.fn)) : l.pre = TreeLacking(l.svc, key)

\* C12: an accessor called on a tree that lacks a key of its navigation path
\* returns the sentinel and reports a field-specific No<Field> code, never
\* the generic Exception code.
C12_MissingKeyCode ==
  (pc # "idle" /\ RequiredKeyMissing(last)) =>
    /\ pc = "returned"
    /\ last.ret = last.sent
    /\ (~last.errNull => SlotCode(last) \in NoFieldCodes)

\* The maneuver type has been asked for on a step that has no maneuver.
C12_NoManeuver ==
  /\ pc = "returned"
  /\ last.fn = "osrmc_route_response_step_maneuver_type"
  /\ RequiredKeyMissing(last)
  /\ last.ret = RNullPtr
  /\ SlotCode(last) = "NoManeuver"

\* The accessors of a field the engine may leave out.
OptionalFields ==
  { "osrmc_route_response_leg_summary", "osrmc_route_response_step_ref",
    "osrmc_route_response_step_exits", "osrmc_route_response_step_maneuver_modifier" }

\* C13: an accessor of an optional field (leg summary, step ref, exits,
\* maneuver modifier) whose index path is valid and whose final key is missing
\* returns the sentinel and leaves the error slot unwritten.
C13_OptionalFieldSilent ==
  (pc # "idle" /\ last.fn \in OptionalFields /\ FieldAbsent(last)) =>
    /\ pc = "returned"
    /\ last.ret = RNullPtr
    /\ last.errs = <<>>

\* The ref of a step that has none has been asked for with an error slot.
C13_RefAbsent ==
  /\ pc = "returned"
  /\ last.fn = "osrmc_route_response_step_ref"
  /\ FieldAbsent(last)
  /\ ~last.errNull
  /\ last.ret = RNullPtr

\* The keys whose value an accessor projects with std::get on its way (after
\* a test for Null, where it makes one).
PathKeys(a) ==
  {a.prog[i].key :
     i \in {j \in 1..(Len(a.prog) - 1) :
              /\ a.prog[j].op \in {"at", "br", "find", "finds"}
              /\ a.prog[j + 1].op \in {"get", "nulls", "nullchk"}}}

\* last is an accessor call, all indices 0, on a response that holds another
\* variant than the accessor projects under a key of its path.
VariantMismatch(l) ==
  /\ l.fn \in AccessorNames
  /\ l.svc # "tile"
  /\ l.h # NULL
  /\ \A k \in 1..Len(l.args) : l.args[k] = 0
  /\ \E key \in PathKeys(AccessorOf(l.fn)) :
       l.pre = Mistype(TreeLacking(l.svc, "none"), key)

\* C14: an accessor that meets another variant than the one it projects on
\* its path comes back with the sentinel of its return type; the error slot,
\* when there is one, holds code "Exception" and the text of the exception.
C14_VariantMismatchCaught ==
  (pc # "idle" /\ VariantMismatch(last)) =>
    /\ pc = "returned"
    /\ last.ub = "none"
    /\ last.ret = last.sent
    /\ last.errs =
         IF last.errNull THEN <<>> ELSE <<ErrorRecord("Exception", "bad_variant_access")>>

\* The distance of a leg has been asked for where "legs" holds a String.
C14_LegsMistyped ==
  /\ pc = "returned"
  /\ last.fn = "osrmc_route_response_leg_distance"
  /\ last.pre = Mistype(RouteTree(1, {}), "legs")
  /\ ~last.errNull
  /\ last.ret = RInf
  /\ SlotCode(last) = "Exception"

\* The object holds a String under the key.
IsString(json, key) == Has(json, key) /\ json.v[key].t = "String"

\* last is a service call the engine failed with an error object.
FailedWithObject(l) ==
  /\ l.svc \in Services
  /\ l.dispatched
  /\ ~l.answer.throws
  /\ l.answer.status = "Error"
  /\ l.answer.kind = "Object"

\* C15: the adapter of an engine error object writes the object's "code" and
\* "message" strings, "Unknown" for an empty code; a record with code
\* "Exception" when either field is not a string; nothing when the error slot
\* is null.
C15_ErrorAdapter ==
  (pc = "returned" /\ FailedWithObject(last)) =>
    LET json == last.answer.json IN
    IF last.errNull THEN last.errs = <<>>
    ELSE IF IsString(json, "code") /\ IsString(json, "message")
      THEN last.errs =
             << ErrorRecord(IF json.v["code"].v = "" THEN "Unknown" ELSE json.v["code"].v,
                            json.v["message"].v) >>
      ELSE Len(last.errs) = 1 /\ SlotCode(last) = "Exception"

\* An error object with an empty code has been adapted.
C15_EmptyCode ==
  /\ pc = "returned"
  /\ FailedWithObject(last)
  /\ ~last.errNull
  /\ IsString(last.answer.json, "code")
  /\ last.answer.json.v["code"].v = ""
  /\ last.errs = << ErrorRecord("Unknown", "failed") >>

\* The accessors of a geometry as a polyline string, and of its coordinates.
PolylineAccessors ==
  { "osrmc_route_response_geometry_polyline",
    "osrmc_route_response_step_geometry_polyline" }

CoordinateAccessors ==
  { "osrmc_route_response_step_geometry_coordinate_count",
    "osrmc_route_response_step_geometry_coordinate_latitude" }

\* C16: a polyline accessor called on a geometry stored as a GeoJSON object
\* returns a null pointer and reports UnsupportedGeometry; a coordinate
\* accessor called on a geometry stored as a polyline string returns its
\* sentinel (0 for a count, NaN for a coordinate) and reports
\* UnsupportedGeometry.
C16_UnsupportedGeometry ==
  (/\ pc # "idle"
   /\ last.h # NULL
   /\ \A k \in 1..Len(last.args) : last.args[k] = 0
   /\ \/ last.fn \in PolylineAccessors /\ last.pre = RouteTree(1, {})
      \/ last.fn \in CoordinateAccessors /\ last.pre = RouteTree(1, {"geojson"})) =>
    /\ pc = "returned"
    /\ last.ret = last.sent
    /\ (~last.errNull => SlotCode(last) = "UnsupportedGeometry")

\* The polyline of a step stored as GeoJSON has been asked for.
C16_StepPolylineOfGeoJSON ==
  /\ pc = "returned"
  /\ last.fn = "osrmc_route_response_step_geometry_polyline"
  /\ last.pre = RouteTree(1, {})
  /\ last.args = << 0, 0, 0 >>
  /\ last.ret = RNullPtr
  /\ SlotCode(last) = "UnsupportedGeometry"

\* The count accessors.
CountAccessors ==
  { "osrmc_nearest_response_count", "osrmc_route_response_alternative_count",
    "osrmc_route_response_leg_count", "osrmc_route_response_step_count",
    "osrmc_route_response_step_intersection_count",
    "osrmc_route_response_step_geometry_coordinate_count",
    "osrmc_table_response_source_count",
    "osrmc_match_response_tracepoint_alternatives_count" }

\* The accessor of a field of the elements a count accessor counts.
ElementAccessor(fn) ==
  CASE fn = "osrmc_nearest_response_count" -> "osrmc_nearest_response_latitude"
    [] fn = "osrmc_route_response_alternative_count" -> "osrmc_route_response_distance_at"
    [] fn = "osrmc_route_response_leg_count" -> "osrmc_route_response_leg_distance"
    [] fn = "osrmc_route_response_step_count" -> "osrmc_route_response_step_duration"
    [] fn = "osrmc_route_response_step_intersection_count" ->
         "osrmc_route_response_step_intersection_location_latitude"
    [] fn = "osrmc_route_response_step_geometry_coordinate_count" ->
         "osrmc_route_response_step_geometry_coordinate_latitude"
    [] OTHER -> "none"

\* The response with no item at its top level.
EmptyTree(svc) ==
  CASE svc = "nearest" -> NearestTree(0, {})
    [] svc = "route" -> RouteTree(0, {})
    [] svc = "table" -> TableTree(0, 0, "none", {})
    [] svc = "match" -> MatchTree(0, {})
    [] svc = "trip" -> TripTree(0, {})

\* last is a count accessor call on a response that lacks what is counted
\* (osrmc_table_response_source_count counts the rows of "durations" when
\* there is no "sources").
CountedAbsent(l) ==
  IF l.fn = "osrmc_table_response_source_count"
    THEN l.pre = TableTree(1, 1, "none", {"durations", "sources"})
    ELSE FieldAbsent(l)

\* C17: a count accessor returns 0 when the key of what it counts is absent
\* from the tree and when the counted array is present and empty; the
\* element accessor of the same level reports no IndexOutOfBounds for any
\* index below the count returned.
C17_CountZeroWhenAbsent ==
  (pc # "idle" /\ last.fn \in CountAccessors /\ last.h # NULL) =>
    /\ CountedAbsent(last) => (pc = "returned" /\ last.ret = RNum(0))
    /\ (last.args = <<>> /\ last.pre = EmptyTree(last.svc)) =>
         (pc = "returned" /\ last.ret = RNum(0) /\ last.errs = <<>>)
    /\ (pc = "returned" /\ last.ret.k = "num" /\ ElementAccessor(last.fn) # "none") =>
         \A i \in 0..(last.ret.n - 1) :
           \A o \in AccessorOutcomes(AccessorOf(ElementAccessor(last.fn)), last.h, last.pre,
                                     Append(last.args, i), FALSE) :
             o.errs = <<>> \/ o.errs[Len(o.errs)].code # "IndexOutOfBounds"

\* The steps of the last leg of the last route have been counted.
C17_StepsCounted ==
  /\ pc = "returned"
  /\ last.fn = "osrmc_route_response_step_count"
  /\ last.pre = RouteTree(MaxItems, {})
  /\ last.args = << MaxItems - 1, MaxItems - 1 >>
  /\ last.ret = RNum(MaxItems)

(***************************************************************************)
(* Boolean flags.                                                          *)
(***************************************************************************)
FlagAccessors ==
  { "osrmc_route_response_step_intersection_entry",
    "osrmc_route_response_step_intersection_lane_valid" }

\* A member of an Object by key, or an element of an Array by index.
Member(key) == [key |-> key, idx |-> 0]

Element(index) == [key |-> "", idx |-> index]

\* What is stored nowhere in the tree.
Absent == [t |-> "Absent"]

RECURSIVE Stored(_, _, _)
\* The value stored at steps i.. of path below node, Absent when a key or
\* an index of the path leads nowhere.
Stored(node, path, i) ==
  IF i > Len(path) THEN node
  ELSE IF path[i].key # ""
    THEN IF node.t = "Object" /\ path[i].key \in DOMAIN node.v
           THEN Stored(node.v[path[i].key], path, i + 1)
           ELSE Absent
    ELSE IF node.t = "Array" /\ path[i].idx < Len(node.v)
           THEN Stored(node.v[path[i].idx + 1], path, i + 1)
           ELSE Absent

\* The flag a call of a boolean-flag accessor asks for.
StoredFlag(l) ==
  LET intersection ==
        << Member("routes"), Element(l.args[1]), Member("legs"), Element(l.args[2]),
           Member("steps"), Element(l.args[3]), Member("intersections"),
           Element(l.args[4]) >>
  IN IF l.fn = "osrmc_route_response_step_intersection_entry"
       THEN Stored(l.pre, intersection \o << Member("entry"), Element(l.args[5]) >>, 1)
       ELSE Stored(l.pre, intersection \o
                          << Member("lanes"), Element(l.args[5]), Member("valid") >>, 1)

InvalidFlagCode(fn) ==
  IF fn = "osrmc_route_response_step_intersection_entry"
    THEN "InvalidEntry" ELSE "InvalidValid"

\* C18: a boolean-flag accessor (intersection entry, lane valid) returns 1
\* when the stored value is True, 0 when it is False and -1 when it is absent
\* or of any other variant; a stored value that is not a boolean is reported
\* as InvalidEntry, respectively InvalidValid.
C18_BooleanFlags ==
  (pc # "idle" /\ last.fn \in FlagAccessors /\ last.h # NULL) =>
    LET v == StoredFlag(last) IN
    /\ pc = "returned"
    /\ last.ub = "none"
    /\ v = JTrue => (last.ret = RNum(1) /\ last.errs = <<>>)
    /\ v = JFalse => (last.ret = RNum(0) /\ last.errs = <<>>)
    /\ v \notin {JTrue, JFalse} => last.ret = RNum(-1)
    /\ (v \notin {JTrue, JFalse, Absent} /\ ~last.errNull) =>
         SlotCode(last) = InvalidFlagCode(last.fn)

\* The second entry flag of the last intersection of a response of two
\* routes is False and comes back as 0.
C18_SecondEntryFalse ==
  /\ pc = "returned"
  /\ last.fn = "osrmc_route_response_step_intersection_entry"
  /\ last.pre = RouteTree(2, {})
  /\ last.args = <<1, 1, 1, 1, 1>>
  /\ StoredFlag(last) = JFalse
  /\ last.ret = RNum(0)

(***************************************************************************)
(* Strings.                                                                *)
(***************************************************************************)
\* The accessors of const char*.
StringAccessors == {a.name : a \in {b \in Accessors : b.sent = RNullPtr}}

RECURSIVE StringsUnder(_, _)
\* The strings the tree stores in members named key.
StringsUnder(node, key) ==
  CASE node.t = "Object" ->
         UNION {IF k = key /\ node.v[k].t = "String" THEN {node.v[k].v}
                ELSE StringsUnder(node.v[k], key) : k \in DOMAIN node.v}
    [] node.t = "Array" -> UNION {StringsUnder(node.v[i], key) : i \in 1..Len(node.v)}
    [] OTHER -> {}

\* C19: every string accessor returns a null pointer when its field is
\* absent from the response; a pointer it returns otherwise points at a
\* string the holder stores in that field, and the holder, alive, still
\* stores it after the call.
C19_StringPointers ==
  (pc # "idle" /\ last.fn \in StringAccessors /\ last.h # NULL) =>
    /\ FieldAbsent(last) => (pc = "returned" /\ last.ret = RNullPtr)
    /\ (pc = "returned" /\ last.ret # RNullPtr) =>
         /\ last.ret.k = "str"
         /\ last.ret.s \in StringsUnder(heap[last.h].json, AccessorOf(last.fn).field)

\* The name of the first waypoint of a route response comes back as the
\* string the holder stores.
C19_WaypointNamed ==
  /\ pc = "returned"
  /\ last.fn = "osrmc_route_response_waypoint_name"
  /\ last.pre = RouteTree(1, {})
  /\ last.args = <<0>>
  /\ last.ret = RStr("a")
  /\ "a" \in StringsUnder(heap[last.h].json, "name")

(***************************************************************************)
(* The serializer: escaping of strings.  A string is the sequence of its   *)
(* bytes, each a number in 0..255.                                         *)
(***************************************************************************)
JSON_CONTROL_CHAR_THRESHOLD == 32

JSON_HEX_MASK == 15

\* constexpr char hex_digits[] = "0123456789abcdef";
hex_digits == << 48, 49, 50, 51, 52, 53, 54, 55, 56, 57, 97, 98, 99, 100, 101, 102 >>

\* A faulty variant of the two digits below: the low nibble first.
HexPairSwapped(ch) ==
  << hex_digits[(ch % (JSON_HEX_MASK + 1)) + 1],
     hex_digits[((ch \div 16) % (JSON_HEX_MASK + 1)) + 1] >>

\* out.push_back(hex_digits[(ch >> 4) & JSON_HEX_MASK]);
\* out.push_back(hex_digits[ch & JSON_HEX_MASK]);
HexPair(ch) ==
  << hex_digits[((ch \div 16) % (JSON_HEX_MASK + 1)) + 1],
     hex_digits[(ch % (JSON_HEX_MASK + 1)) + 1] >>

\* The body of the switch (ch) of osrmc_json_append_escaped: what one byte
\* appends to out.
EscapeByte(ch) ==
  CASE ch = 34 -> << 92, 34 >>
    [] ch = 92 -> << 92, 92 >>
    [] ch = 8 -> << 92, 98 >>
    [] ch = 12 -> << 92, 102 >>
    [] ch = 10 -> << 92, 110 >>
    [] ch = 13 -> << 92, 114 >>
    [] ch = 9 -> << 92, 116 >>
    [] OTHER ->
         IF ch < JSON_CONTROL_CHAR_THRESHOLD
           THEN << 92, 117, 48, 48 >> \o HexPair(ch)
           ELSE << ch >>

RECURSIVE AppendFrom(_, _, _)
\* The loop of osrmc_json_append_escaped from the i-th byte of value on.
AppendFrom(out, value, i) ==
  IF i > Len(value) THEN out
  ELSE AppendFrom(out \o EscapeByte(value[i]), value, i + 1)

\* void osrmc_json_append_escaped(std::string& out, std::string_view value)
osrmc_json_append_escaped(out, value) == AppendFrom(out, value, 1)

\* The longest string that is escaped, apart from the single bytes.
MaxLen == 2

Bytes == 0..255

\* The bytes the longer strings are made of: the escaped ones, the first and
\* the last control character, and bytes on both sides of 0x20 and 0x80.
SampleBytes == { 34, 92, 8, 12, 10, 13, 9, 0, 31, 32, 97, 127, 128, 255 }

Values ==
  {<< b >> : b \in Bytes} \cup UNION {[1..n -> SampleBytes] : n \in 0..MaxLen}

\* out as the renderer has left it when it escapes a value and a key.
Prefixes == { << 34 >>, << 123, 34 >> }

InitEscape ==
  /\ heap = [h \in Handles |-> Free]
  /\ config = EngineConfig
  /\ matrix = <<>>
  /\ last = NoCall
  /\ pc = "idle"

\* The renderer escapes one string into out.
AppendEscaped ==
  /\ pc = "idle"
  /\ \E out \in Prefixes, value \in Values :
       last' = [fn |-> "osrmc_json_append_escaped", before |-> out, value |-> value,
                out |-> osrmc_json_append_escaped(out, value)]
  /\ pc' = "returned"
  /\ UNCHANGED <<heap, config, matrix>>

NextEscape ==
  \/ AppendEscaped
  \/ Ack

SpecEscape == InitEscape /\ [][NextEscape]_vars

\* A hexadecimal digit in lower case.
LowerHex(d) == IF d < 10 THEN 48 + d ELSE 97 + (d - 10)

\* The image of one byte.
Image(b) ==
  IF b = 34 THEN << 92, 34 >>
  ELSE IF b = 92 THEN << 92, 92 >>
  ELSE IF b = 8 THEN << 92, 98 >>
  ELSE IF b = 12 THEN << 92, 102 >>
  ELSE IF b = 10 THEN << 92, 110 >>
  ELSE IF b = 13 THEN << 92, 114 >>
  ELSE IF b = 9 THEN << 92, 116 >>
  ELSE IF b < 32 THEN << 92, 117, 48, 48, LowerHex(b \div 16), LowerHex(b % 16) >>
  ELSE << b >>

RECURSIVE Images(_)
\* The images of the bytes of a string, one after the other.
Images(value) ==
  IF value = <<>> THEN <<>> ELSE Image(Head(value)) \o Images(Tail(value))

\* C20: escaping maps each byte on its own, '"' to \", '\' to \\, 0x08 to \b,
\* 0x0C to \f, 0x0A to \n, 0x0D to \r, 0x09 to \t, any other byte below 0x20
\* to \u00 and two lowercase hex digits, any other byte to itself; what is
\* appended to out is the images of the bytes in the order of the input.
C20_EscapedBytewise ==
  (pc = "returned" /\ last.fn = "osrmc_json_append_escaped") =>
    last.out = last.before \o Images(last.value)

\* The unit separator 0x1F followed by the letter a: \u001f and a.
C20_ControlThenLetter ==
  /\ pc = "returned"
  /\ last.fn = "osrmc_json_append_escaped"
  /\ last.value = << 31, 97 >>
  /\ last.before = << 34 >>
  /\ last.out = << 34, 92, 117, 48, 48, 49, 102, 97 >>

(***************************************************************************)
(* The serializer: rendering of a tree.  Strings and keys are sequences    *)
(* of bytes here.  The members of an Object are kept by osrm::json::Object *)
(* in a std::unordered_map, which the renderer iterates in the map's own   *)
(* order; rank is that order, a sequence of all keys.                      *)
(***************************************************************************)
\* A Number that is NaN, +Infinity or -Infinity.
JNonFinite(kind) == [t |-> "Number", v |-> 0, nonfinite |-> kind]

\* A faulty variant of the test below: every Number passes for finite.
IsFiniteAlways(node) == TRUE

\* std::isfinite(value.value)
IsFinite(node) == "nonfinite" \notin DOMAIN node

RECURSIVE Digits(_)
\* The decimal digits of a natural number.
Digits(n) == IF n < 10 THEN << 48 + n >> ELSE Digits(n \div 10) \o << 48 + (n % 10) >>

\* stream << std::defaultfloat << value.value, for an integral value of at
\* most JSON_NUMBER_PRECISION digits.
Decimal(n) == IF n < 0 THEN << 45 >> \o Digits(0 - n) ELSE Digits(n)

\* The keys of an Object in the order the map iterates them.
Iteration(node, rank) == SelectSeq(rank, LAMBDA k : k \in DOMAIN node.v)

\* if (!first) out.push_back(','); first = false;  before the i-th of n
\* members or elements.
Separator(i, n) == IF i > 1 THEN << 44 >> ELSE <<>>

RECURSIVE Render(_, _)
RECURSIVE RenderMembers(_, _, _, _)
RECURSIVE RenderElements(_, _, _)
\* std::visit(osrmc_json_renderer{out}, child): what the value appends to out.
Render(node, rank) ==
  CASE node.t = "String" -> osrmc_json_append_escaped(<< 34 >>, node.v) \o << 34 >>
    [] node.t = "Number" ->
         IF ~IsFinite(node) THEN << 110, 117, 108, 108 >> ELSE Decimal(node.v)
    [] node.t = "Object" ->
         << 123 >> \o RenderMembers(node, Iteration(node, rank), 1, rank) \o << 125 >>
    [] node.t = "Array" -> << 91 >> \o RenderElements(node, 1, rank) \o << 93 >>
    [] node.t = "True" -> << 116, 114, 117, 101 >>
    [] node.t = "False" -> << 102, 97, 108, 115, 101 >>
    [] node.t = "Null" -> << 110, 117, 108, 108 >>

\* for (const auto& [key, child] : object.values), from the i-th key on.
RenderMembers(node, keys, i, rank) ==
  IF i > Len(keys) THEN <<>>
  ELSE Separator(i, Len(keys))
         \o osrmc_json_append_escaped(<< 34 >>, keys[i]) \o << 34, 58 >>
         \o Render(node.v[keys[i]], rank)
         \o RenderMembers(node, keys, i + 1, rank)

\* for (const auto& child : array.values), from the i-th element on.
RenderElements(node, i, rank) ==
  IF i > Len(node.v) THEN <<>>
  ELSE Separator(i, Len(node.v)) \o Render(node.v[i], rank)
         \o RenderElements(node, i + 1, rank)

\* void osrmc_render_json(std::string& out, const osrm::json::Object& object):
\* out.clear(); renderer(object);
osrmc_render_json(object, rank) == Render(object, rank)

(***************************************************************************)
(* The trees that are rendered, written down as the engine builds them:    *)
(* an Object is the sequence of its members in the order of insertion.     *)
(***************************************************************************)
Inserted(members) == [t |-> "Inserted", m |-> members]

Member2(key, value) == [key |-> key, value |-> value]

RECURSIVE Build(_)
\* The tree as the containers hold it: an Object keeps no order of insertion.
Build(src) ==
  CASE src.t = "Inserted" ->
         JObj([k \in {src.m[i].key : i \in 1..Len(src.m)} |->
                 Build(src.m[CHOOSE i \in 1..Len(src.m) : src.m[i].key = k].value)])
    [] src.t = "Array" -> JArr([i \in 1..Len(src.v) |-> Build(src.v[i])])
    [] OTHER -> src

RenderKeys == { << 97 >>, << 98 >> }

\* The orders a map of these keys can iterate in.
Rankings == { << << 97 >>, << 98 >> >>, << << 98 >>, << 97 >> >> }

NonFinite == { JNonFinite("NaN"), JNonFinite("+Infinity"), JNonFinite("-Infinity") }

Leaves ==
  { JNull, JTrue, JFalse, JNum(0), JNum(12), JNum(-5), JStr(<<>>), JStr(<< 97, 34 >>) }
    \cup NonFinite

\* Arrays of up to MaxItems of three of the leaves.
LeafArrays == UNION {{JArr(s) : s \in [1..n -> {JTrue, JNum(12), JNonFinite("NaN")}]} : n \in 0..MaxItems}

\* Objects of no, one and two members.
Objects(values) ==
  { Inserted(<<>>) }
    \cup { Inserted(<< Member2(k, v) >>) : k \in RenderKeys, v \in values }
    \cup { Inserted(<< Member2(k[1], v), Member2(k[2], w) >>) :
             k \in Rankings, v \in values, w \in values }

RenderSources ==
  Objects(Leaves \cup LeafArrays)
    \cup Objects({ JArr(<< Inserted(<<>>), Inserted(<< Member2(<< 97 >>, JNull) >>) >>),
                   Inserted(<< Member2(<< 98 >>, JFalse), Member2(<< 97 >>, JArr(<<>>)) >>) })

InitRender ==
  /\ heap = [h \in Handles |-> Free]
  /\ config = EngineConfig
  /\ matrix = <<>>
  /\ last = NoCall
  /\ pc = "idle"

\* The tree of a response is rendered into a blob.
RenderJson ==
  /\ pc = "idle"
  /\ \E src \in RenderSources, rank \in Rankings :
       last' = [fn |-> "osrmc_render_json", src |-> src, rank |-> rank,
                out |-> osrmc_render_json(Build(src), rank)]
  /\ pc' = "returned"
  /\ UNCHANGED <<heap, config, matrix>>

NextRender ==
  \/ RenderJson
  \/ Ack

SpecRender == InitRender /\ [][NextRender]_vars

RECURSIVE Joined(_)
\* The texts of a sequence, one comma between two of them.
Joined(texts) ==
  IF texts = <<>> THEN <<>>
  ELSE IF Len(texts) = 1 THEN texts[1]
  ELSE texts[1] \o << 44 >> \o Joined(Tail(texts))

RECURSIVE Text(_)
\* The compact text of a tree, members in the order of insertion, elements
\* in the order of the array.
Text(src) ==
  CASE src.t = "Inserted" ->
         << 123 >>
           \o Joined([i \in 1..Len(src.m) |->
                        << 34 >> \o Images(src.m[i].key) \o << 34, 58 >>
                          \o Text(src.m[i].value)])
           \o << 125 >>
    [] src.t = "Array" ->
         << 91 >> \o Joined([i \in 1..Len(src.v) |-> Text(src.v[i])]) \o << 93 >>
    [] OTHER -> Render(src, <<>>)

\* C21: an Object is rendered as '{' members '}' and an Array as
\* '[' elements ']', a member as "key":value, one comma between two members
\* or elements and none after the last, no whitespace, elements in the
\* order of the array and members in the order of insertion; an empty
\* Object is {} and an empty Array [].
C21_CompactInOrder ==
  (pc = "returned" /\ last.fn = "osrmc_render_json") => last.out = Text(last.src)

\* An Object of two members comes out with one comma and, where the map
\* iterates in the order of insertion, the members in that order.
C21_TwoMembers ==
  /\ pc = "returned"
  /\ last.fn = "osrmc_render_json"
  /\ last.src = Inserted(<< Member2(<< 98 >>, JTrue), Member2(<< 97 >>, JArr(<<>>)) >>)
  /\ last.rank = << << 98 >>, << 97 >> >>
  /\ last.out = << 123, 34, 98, 34, 58, 116, 114, 117, 101, 44, 34, 97, 34, 58, 91, 93, 125 >>

\* The token the claim gives a value that is no string, no finite number
\* and no container.
Token(v) ==
  IF v.t = "True" THEN << 116, 114, 117, 101 >>
  ELSE IF v.t = "False" THEN << 102, 97, 108, 115, 101 >>
  ELSE << 110, 117, 108, 108 >>

Tokens == NonFinite \cup { JNull, JTrue, JFalse }

\* C22: a Number that is NaN, +Infinity or -Infinity is rendered as null,
\* the text of the Null variant; True, False and Null are rendered as the
\* lowercase tokens true, false and null.
C22_Literals ==
  (pc = "returned" /\ last.fn = "osrmc_render_json") =>
    \A k \in RenderKeys, v \in Tokens :
      /\ last.src = Inserted(<< Member2(k, v) >>) =>
           last.out = << 123, 34 >> \o k \o << 34, 58 >> \o Token(v) \o << 125 >>
      /\ last.src = Inserted(<< Member2(k, JArr(<< v >>)) >>) =>
           last.out = << 123, 34 >> \o k \o << 34, 58, 91 >> \o Token(v) \o << 93, 125 >>

\* -Infinity as the only member comes out as null.
C22_MinusInfinity ==
  /\ pc = "returned"
  /\ last.fn = "osrmc_render_json"
  /\ last.src = Inserted(<< Member2(<< 97 >>, JNonFinite("-Infinity")) >>)
  /\ last.out = << 123, 34, 97, 34, 58, 110, 117, 108, 108, 125 >>

(***************************************************************************)
(* Ownership.                                                              *)
(***************************************************************************)
\* The objects a step has allocated, and those it has deleted.
Allocated == {h \in Handles : heap[h] = Free /\ heap'[h] # Free}

Deleted == {h \in Handles : heap[h] # Free /\ heap'[h] = Free}

\* C23: every successful service call and every *_response_json call returns
\* a newly allocated object that shares no storage with another live holder
\* or blob: the object is put where none was and every other object stays as
\* it is; destructing a response leaves every other holder and every blob
\* rendered from it as it is, and destructing a blob leaves its source
\* response as it is.
C23_NoSharedStorage ==
  [][/\ \A h \in Handles : heap'[h] # heap[h] => h \in Allocated \cup Deleted
     /\ \A h \in Allocated \cup Deleted : \A g \in Handles \ {h} : heap'[g] = heap[g]
     /\ (pc' = "returned" /\ last'.svc \in Services \cup {"blob"} /\ last'.ret # NULL) =>
          Allocated = {last'.ret}]_vars

\* A blob is live after the response it was rendered from is destructed.
C23_BlobOutlivesResponse ==
  /\ pc = "idle"
  /\ heap[1] = Free
  /\ heap[2] = Blob(RouteTree(1, {}))

(***************************************************************************)
(* The parameter bag (osrm::engine::api::BaseParameters): the coordinates  *)
(* and, per coordinate, an optional radius, bearing, hint and approach.    *)
(***************************************************************************)
\* std::nullopt and a std::optional that holds x.
None == [some |-> FALSE]

Some(x) == [some |-> TRUE, val |-> x]

\* A double: a number, or NaN.
Double(n) == [nan |-> FALSE, val |-> n]

DoubleNaN == [nan |-> TRUE, val |-> 0]

\* static_cast<short>(n)
ToShort(n) == ((n + 32768) % 65536) - 32768

\* osrm::Bearing{static_cast<short>(value), static_cast<short>(range)}
Bearing(value, range) == [bearing |-> ToShort(value), range |-> ToShort(range)]

OSRMC_APPROACH_CURB == 0

OSRMC_APPROACH_UNRESTRICTED == 1

OSRMC_APPROACH_OPPOSITE == 2

\* The bag as osrmc_<svc>_params_construct leaves it.
EmptyBag ==
  [coordinates |-> <<>>, radiuses |-> <<>>, bearings |-> <<>>, hints |-> <<>>,
   approaches |-> <<>>]

\* The address of the caller's parameter bag.
ParamsHandle == 1

Bag == heap[ParamsHandle].json

\* static bool osrmc_validate_params(params, error): the records it writes.
osrmc_validate_params(params, errNull) ==
  IF params = NULL /\ ~errNull
    THEN << ErrorRecord("InvalidArgument", "Params must not be null") >>
    ELSE <<>>

\* A faulty variant of the check below: the index one past the last passes.
CoordinateIndexPastEnd(bag, coordinate_index) ==
  coordinate_index > Len(bag.coordinates)

\* if (coordinate_index >= params.coordinates.size()) in
\* osrmc_validate_coordinate_index
InvalidCoordinateIndex(bag, coordinate_index) ==
  coordinate_index >= Len(bag.coordinates)

\* static bool osrmc_validate_coordinate_index(params, coordinate_index,
\* parameter, error): the records it writes.
osrmc_validate_coordinate_index(bag, coordinate_index, parameter, errNull) ==
  IF InvalidCoordinateIndex(bag, coordinate_index) /\ ~errNull
    THEN << ErrorRecord("InvalidCoordinateIndex", parameter \o " index out of bounds") >>
    ELSE <<>>

\* static void osrmc_ensure_container_size(container, size): resize fills
\* with std::nullopt.
osrmc_ensure_container_size(container, size) ==
  IF Len(container) < size
    THEN container \o [i \in 1..(size - Len(container)) |-> None]
    ELSE container

\* osrmc_ensure_container_size(params->list, params->coordinates.size());
\* params->list[coordinate_index] = value;  A write past the end of the
\* vector is undefined: the list is left as it is here.
SetSlot(bag, list, coordinate_index, value) ==
  LET grown == osrmc_ensure_container_size(bag[list], Len(bag.coordinates)) IN
  [bag EXCEPT ![list] = IF coordinate_index < Len(grown)
                          THEN [grown EXCEPT ![coordinate_index + 1] = value]
                          ELSE grown]

\* What a call on the bag leaves for the caller to see.
ParamsCall(fn, params, arg, errNull, errs, pre) ==
  [fn |-> fn, svc |-> "params", params |-> params, arg |-> arg, errNull |-> errNull,
   st |-> "ret", errs |-> errs, pre |-> pre]

\* The body shared by the four setters of a per-coordinate option.
SetOption(fn, list, parameter, arg, value) ==
  /\ pc = "idle"
  /\ \E params \in {NULL, ParamsHandle}, coordinate_index \in 0..MaxItems,
        errNull \in BOOLEAN :
       /\ params = NULL => coordinate_index = 0
       /\ LET a == arg @@ [coordinate_index |-> coordinate_index] IN
          IF params = NULL
            THEN /\ heap' = heap
                 /\ last' = ParamsCall(fn, params, a, errNull,
                                       osrmc_validate_params(params, errNull), Bag)
          ELSE IF InvalidCoordinateIndex(Bag, coordinate_index)
            THEN /\ heap' = heap
                 /\ last' = ParamsCall(fn, params, a, errNull,
                                       osrmc_validate_coordinate_index(
                                         Bag, coordinate_index, parameter, errNull), Bag)
          ELSE /\ heap' = [heap EXCEPT ![ParamsHandle].json =
                                         SetSlot(Bag, list, coordinate_index, value)]
               /\ last' = ParamsCall(fn, params, a, errNull, <<>>, Bag)
  /\ pc' = "returned"
  /\ UNCHANGED <<config, matrix>>

\* The radiuses, bearings, hints and approaches the caller passes.
Radiuses == { Double(-1), Double(5), DoubleNaN }

BearingArgs == { << -1, 10 >>, << 90, -1 >>, << 90, 10 >> }

HintArgs == { "null", "hint" }

ApproachArgs == { OSRMC_APPROACH_CURB, OSRMC_APPROACH_OPPOSITE + 1 }

\* void osrmc_params_add_coordinate(params, longitude, latitude, error)
osrmc_params_add_coordinate ==
  /\ pc = "idle"
  /\ Len(Bag.coordinates) < MaxItems
  /\ \E params \in {NULL, ParamsHandle}, errNull \in BOOLEAN :
       IF params = NULL
         THEN /\ heap' = heap
              /\ last' = ParamsCall("osrmc_params_add_coordinate", params, <<>>, errNull,
                                    osrmc_validate_params(params, errNull), Bag)
         ELSE /\ heap' = [heap EXCEPT ![ParamsHandle].json.coordinates =
                                        Append(@, << 13, 52 >>)]
              /\ last' = ParamsCall("osrmc_params_add_coordinate", params, <<>>, errNull,
                                    <<>>, Bag)
  /\ pc' = "returned"
  /\ UNCHANGED <<config, matrix>>

\* void osrmc_params_add_coordinate_with(params, longitude, latitude, radius,
\* bearing, range, error)
osrmc_params_add_coordinate_with ==
  /\ pc = "idle"
  /\ Len(Bag.coordinates) < MaxItems
  /\ \E params \in {NULL, ParamsHandle}, errNull \in BOOLEAN :
       LET arg == [radius |-> Double(5), bearing |-> 90, range |-> 10] IN
       IF params = NULL
         THEN /\ heap' = heap
              /\ last' = ParamsCall("osrmc_params_add_coordinate_with", params, arg,
                                    errNull, osrmc_validate_params(params, errNull), Bag)
         ELSE /\ heap' = [heap EXCEPT ![ParamsHandle].json =
                            [Bag EXCEPT !.coordinates = Append(@, << 13, 52 >>),
                                        !.radiuses = Append(@, Some(arg.radius)),
                                        !.bearings =
                                          Append(@, Some(Bearing(arg.bearing, arg.range)))]]
              /\ last' = ParamsCall("osrmc_params_add_coordinate_with", params, arg,
                                    errNull, <<>>, Bag)
  /\ pc' = "returned"
  /\ UNCHANGED <<config, matrix>>

\* void osrmc_params_set_hint(params, coordinate_index, hint_base64, error)
osrmc_params_set_hint ==
  \E hint \in HintArgs :
    SetOption("osrmc_params_set_hint", "hints", "Hint", [hint |-> hint],
              IF hint # "null" THEN Some(hint) ELSE None)

\* void osrmc_params_set_radius(params, coordinate_index, radius, error)
osrmc_params_set_radius ==
  \E radius \in Radiuses :
    SetOption("osrmc_params_set_radius", "radiuses", "Radius", [radius |-> radius],
              IF ~radius.nan /\ radius.val >= 0 THEN Some(radius) ELSE None)

\* void osrmc_params_set_bearing(params, coordinate_index, value, range, error)
osrmc_params_set_bearing ==
  \E b \in BearingArgs :
    SetOption("osrmc_params_set_bearing", "bearings", "Bearing",
              [value |-> b[1], range |-> b[2]],
              IF b[1] < 0 \/ b[2] < 0 THEN None ELSE Some(Bearing(b[1], b[2])))

\* void osrmc_params_set_approach(params, coordinate_index, approach, error)
osrmc_params_set_approach ==
  \E approach \in ApproachArgs :
    SetOption("osrmc_params_set_approach", "approaches", "Approach",
              [approach |-> approach],
              IF approach \in {OSRMC_APPROACH_CURB, OSRMC_APPROACH_UNRESTRICTED,
                               OSRMC_APPROACH_OPPOSITE}
                THEN Some(approach) ELSE None)

InitParams ==
  /\ heap = [h \in Handles |-> IF h = ParamsHandle THEN Holder("params", EmptyBag) ELSE Free]
  /\ config = EngineConfig
  /\ matrix = <<>>
  /\ last = NoCall
  /\ pc = "idle"

NextParams ==
  \/ osrmc_params_add_coordinate
  \/ osrmc_params_add_coordinate_with
  \/ osrmc_params_set_hint
  \/ osrmc_params_set_radius
  \/ osrmc_params_set_bearing
  \/ osrmc_params_set_approach
  \/ Ack

SpecParams == InitParams /\ [][NextParams]_vars

OptionSetters ==
  { "osrmc_params_set_hint", "osrmc_params_set_radius", "osrmc_params_set_bearing",
    "osrmc_params_set_approach" }

\* The per-coordinate list a setter writes.
ListOf(fn) ==
  CASE fn = "osrmc_params_set_hint" -> "hints"
    [] fn = "osrmc_params_set_radius" -> "radiuses"
    [] fn = "osrmc_params_set_bearing" -> "bearings"
    [] fn = "osrmc_params_set_approach" -> "approaches"

\* C24: osrmc_params_set_hint, _set_radius, _set_bearing and _set_approach
\* with coordinate_index >= the number of coordinates report
\* InvalidCoordinateIndex and leave the bag unchanged; with a valid index
\* they grow their list to at least the number of coordinates and change
\* only the slot at coordinate_index, which is cleared when radius < 0
\* (set_radius) or when value < 0 or range < 0 (set_bearing).
C24_OptionSetters ==
  (pc = "returned" /\ last.fn \in OptionSetters /\ last.params # NULL) =>
    LET pre == last.pre
        post == Bag
        i == last.arg.coordinate_index
        list == ListOf(last.fn)
    IN IF i >= Len(pre.coordinates)
         THEN /\ ~last.errNull => SlotCode(last) = "InvalidCoordinateIndex"
              /\ post = pre
         ELSE /\ last.errs = <<>>
              /\ \A f \in DOMAIN pre \ {list} : post[f] = pre[f]
              /\ Len(post[list]) >= Len(post.coordinates)
              /\ Len(post[list]) >= Len(pre[list])
              /\ \A j \in 1..Len(post[list]) \ {i + 1} :
                   post[list][j] = IF j <= Len(pre[list]) THEN pre[list][j] ELSE None
              /\ (/\ last.fn = "osrmc_params_set_radius"
                  /\ ~last.arg.radius.nan
                  /\ last.arg.radius.val < 0) => post.radiuses[i + 1] = None
              /\ (/\ last.fn = "osrmc_params_set_bearing"
                  /\ (last.arg.value < 0 \/ last.arg.range < 0)) =>
                   post.bearings[i + 1] = None

\* A negative radius has cleared the slot of the second coordinate, which
\* held a radius, and the first slot is as before.
C24_RadiusCleared ==
  /\ pc = "returned"
  /\ last.fn = "osrmc_params_set_radius"
  /\ last.params # NULL
  /\ last.arg.coordinate_index = 1
  /\ last.arg.radius = Double(-1)
  /\ last.pre.radiuses = << Some(Double(5)), Some(Double(5)) >>
  /\ Bag.radiuses = << Some(Double(5)), None >>

\* C25: the radius and the bearing passed to osrmc_params_add_coordinate_with
\* for the coordinate at position i are stored at position i of the radiuses
\* and of the bearings, whatever calls of osrmc_params_add_coordinate,
\* osrmc_params_add_coordinate_with, osrmc_params_set_radius and
\* osrmc_params_set_bearing came before on the bag.
C25_OptionsAligned ==
  (/\ pc = "returned"
   /\ last.fn = "osrmc_params_add_coordinate_with"
   /\ last.params # NULL) =>
    LET i == Len(Bag.coordinates) IN
    /\ i = Len(last.pre.coordinates) + 1
    /\ Len(Bag.radiuses) >= i
    /\ Bag.radiuses[i] = Some(last.arg.radius)
    /\ Len(Bag.bearings) >= i
    /\ Bag.bearings[i] = Some(Bearing(last.arg.bearing, last.arg.range))

\* A coordinate added with options to an empty bag has them at its position.
C25_FirstWithOptions ==
  /\ pc = "returned"
  /\ last.fn = "osrmc_params_add_coordinate_with"
  /\ last.params # NULL
  /\ last.pre = EmptyBag
  /\ Bag.radiuses = << Some(Double(5)) >>
  /\ Bag.bearings = << Some(Bearing(90, 10)) >>

(***************************************************************************)
(* Error records.                                                          *)
(***************************************************************************)
\* C26: a call that reports a failure allocates exactly one error record,
\* the one the caller's error slot holds after the call; no record
\* allocated during the call is overwritten in the slot and orphaned, a
\* service call with a null engine handle included.
C26_OneErrorRecord ==
  (pc = "returned" /\ last.svc \in Services \cup {"blob", "config"} /\ ~last.errNull) =>
    Len(last.errs) <= 1

\* A service call with a live engine and no parameters has failed with one
\* record.
C26_NullParamsOneRecord ==
  /\ pc = "returned"
  /\ last.svc \in Services
  /\ ~last.errNull
  /\ last.osrm # NULL
  /\ last.params = NULL
  /\ last.ret = NULL
  /\ last.errs = << ErrorRecord("InvalidArgument", "OSRM instance and params must not be null") >>

(***************************************************************************)
(* The bulk table accessors again.                                         *)
(***************************************************************************)
\* C27: whenever osrmc_table_response_get_duration_matrix or
\* osrmc_table_response_get_distance_matrix returns -1 (missing table, null
\* buffer, buffer too small, a row shorter than the first, a row or a cell of
\* the wrong variant), no element of the caller's buffer has been modified.
C27_BufferUntouchedOnFailure ==
  (/\ pc = "returned"
   /\ last.fn \in MatrixNames
   /\ last.h # NULL
   /\ last.ret = RNum(-1)) => matrix = FreshBuffer(last.cap)

\* The table is missing: -1, NoTable, and the buffer of one double is as
\* the caller passed it.
C27_MissingTable ==
  /\ pc = "returned"
  /\ last.fn = "osrmc_table_response_get_duration_matrix"
  /\ last.pre = TableTree(1, 1, "none", {"durations"})
  /\ ~last.errNull
  /\ ~last.bufNull
  /\ last.cap = 1
  /\ last.ret = RNum(-1)
  /\ SlotCode(last) = "NoTable"
  /\ matrix = FreshBuffer(1)

(***************************************************************************)
(* The counts of a table against its flattened matrix.                     *)
(***************************************************************************)
\* The counts that accessor a gives for the tree json through a live handle:
\* what its calls that report no error return.
Counted(a, json) ==
  { o \in AccessorOutcomes(a, LiveObject, json, <<>>, FALSE) : o.errs = <<>> }

\* The rows of "durations" and the length of its first row.
Rows(json) == IF Has(json, "durations") THEN Len(json.v["durations"].v) ELSE 0

FirstRow(json) ==
  IF Rows(json) = 0 THEN 0 ELSE Len(json.v["durations"].v[1].v)

\* C28: for every table response, osrmc_table_response_source_count times
\* osrmc_table_response_destination_count equals the element count that
\* osrmc_table_response_get_duration_matrix returns on success; without
\* "sources" or "destinations" the counts are the number of rows and the
\* length of the first row of "durations".
C28_CountsMatchMatrix ==
  (/\ pc = "returned"
   /\ last.fn = "osrmc_table_response_get_duration_matrix"
   /\ last.h # NULL
   /\ last.ret.k = "num" /\ last.ret.n >= 0) =>
    \A s \in Counted(osrmc_table_response_source_count, last.pre),
       d \in Counted(osrmc_table_response_destination_count, last.pre) :
      /\ s.st = "ret" /\ d.st = "ret"
      /\ RNum(s.ret.n * d.ret.n) = last.ret
      /\ ~Has(last.pre, "sources") => s.ret = RNum(Rows(last.pre))
      /\ ~Has(last.pre, "destinations") => d.ret = RNum(FirstRow(last.pre))

\* A 2 x 1 table without "sources" and "destinations" has been flattened.
C28_CountsFromDurations ==
  /\ pc = "returned"
  /\ last.fn = "osrmc_table_response_get_duration_matrix"
  /\ last.pre = TableTree(2, 1, "none", {"sources", "destinations"})
  /\ last.ret = RNum(2)
  /\ \E d \in Counted(osrmc_table_response_destination_count, last.pre) : d.ret = RNum(1)

(***************************************************************************)
(* The datasets a configuration disables.  A dataset name is the sequence  *)
(* of its bytes, and the argument is None for a null pointer.              *)
(***************************************************************************)
\* "route_steps"
RouteSteps == <<114, 111, 117, 116, 101, 95, 115, 116, 101, 112, 115>>

\* "route_geometry"
RouteGeometry == <<114, 111, 117, 116, 101, 95, 103, 101, 111, 109, 101, 116, 114, 121>>

\* std::tolower in the "C" locale.
tolower(ch) == IF ch \in 65..90 THEN ch + 32 ELSE ch

osrmc_to_lower(value) == [i \in 1..Len(value) |-> tolower(value[i])]

osrmc_feature_dataset_from_string(name) ==
  LET lower == osrmc_to_lower(name)
  IN IF lower = RouteSteps THEN Some("ROUTE_STEPS")
     ELSE IF lower = RouteGeometry THEN Some("ROUTE_GEOMETRY")
     ELSE None

\* static void osrmc_refresh_storage_config_for_datasets(config_typed)
osrmc_refresh_storage_config_for_datasets(cfg) ==
  [cfg EXCEPT !.storage_config = cfg.disable_feature_dataset]

\* std::find(list.begin(), list.end(), dataset) != list.end()
Exists(list, dataset) == \E i \in 1..Len(list) : list[i] = dataset

\* The name in capitals, and with its first letter in capitals.
Capitals(name) == [i \in 1..Len(name) |-> IF name[i] \in 97..122 THEN name[i] - 32 ELSE name[i]]

Capitalised(name) == [i \in 1..Len(name) |-> IF i = 1 THEN name[i] - 32 ELSE name[i]]

\* The names the caller passes: the two datasets in three spellings, a name
\* one letter short, a name one letter long, the empty name.
DatasetNames ==
  { RouteSteps, Capitals(RouteSteps), Capitalised(RouteSteps),
    RouteGeometry, Capitals(RouteGeometry), Capitalised(RouteGeometry),
    SubSeq(RouteSteps, 1, Len(RouteSteps) - 1), Append(RouteGeometry, 115), <<>> }

\* void osrmc_config_disable_feature_dataset(config, dataset_name, error)
\* The unknown-dataset branch writes *error with no if (error) before it.
osrmc_config_disable_feature_dataset ==
  /\ pc = "idle"
  /\ \E cfg \in {NULL, LiveObject},
        dataset_name \in {None} \cup {Some(name) : name \in DatasetNames},
        errNull \in BOOLEAN :
       LET call == [fn |-> "osrmc_config_disable_feature_dataset", svc |-> "config",
                    cfg |-> cfg, dataset_name |-> dataset_name, errNull |-> errNull,
                    ret |-> NULL, pre |-> config]
           dataset == osrmc_feature_dataset_from_string(dataset_name.val)
       IN IF cfg = NULL
            THEN /\ config' = config
                 /\ last' = call @@ [st |-> "ret", ub |-> "none",
                                     errs |-> osrmc_validate_config(cfg, errNull)]
                 /\ pc' = "returned"
          ELSE IF ~dataset_name.some
            THEN /\ config' = config
                 /\ last' = call @@ [st |-> "ret", ub |-> "none",
                                     errs |-> IF errNull THEN <<>>
                                              ELSE << ErrorRecord("InvalidDataset",
                                                        "Dataset name must not be null") >>]
                 /\ pc' = "returned"
          ELSE IF ~dataset.some /\ ~errNull
            THEN /\ config' = config
                 /\ last' = call @@ [st |-> "ret", ub |-> "none",
                                     errs |-> << ErrorRecord("InvalidDataset",
                                                             "Unknown dataset") >>]
                 /\ pc' = "returned"
          ELSE IF ~dataset.some
            THEN \E st \in {"fault", "ret"} :
                   /\ config' = config
                   /\ last' = call @@ [st |-> st, ub |-> "nullwrite", errs |-> <<>>]
                   /\ pc' = IF st = "fault" THEN "crashed" ELSE "returned"
          ELSE /\ config' =
                    IF Exists(config.disable_feature_dataset, dataset.val)
                      THEN config
                      ELSE osrmc_refresh_storage_config_for_datasets(
                             [config EXCEPT !.disable_feature_dataset =
                                              Append(@, dataset.val)])
               /\ last' = call @@ [st |-> "ret", ub |-> "none", errs |-> <<>>]
               /\ pc' = "returned"
  /\ UNCHANGED <<heap, matrix>>

\* void osrmc_config_clear_disabled_feature_datasets(config, error)
osrmc_config_clear_disabled_feature_datasets ==
  /\ pc = "idle"
  /\ \E cfg \in {NULL, LiveObject}, errNull \in BOOLEAN :
       LET call == [fn |-> "osrmc_config_clear_disabled_feature_datasets",
                    svc |-> "config", cfg |-> cfg, dataset_name |-> None,
                    errNull |-> errNull, ret |-> NULL, pre |-> config]
       IN /\ config' =
               IF cfg = NULL THEN config
               ELSE osrmc_refresh_storage_config_for_datasets(
                      [config EXCEPT !.disable_feature_dataset = <<>>])
          /\ last' = call @@ [st |-> "ret", ub |-> "none",
                              errs |-> osrmc_validate_config(cfg, errNull)]
          /\ pc' = "returned"
  /\ UNCHANGED <<heap, matrix>>

InitConfig ==
  /\ heap = [h \in Handles |-> Free]
  /\ config = EngineConfig
  /\ matrix = <<>>
  /\ last = NoCall
  /\ pc = "idle"

NextConfig ==
  \/ osrmc_config_disable_feature_dataset
  \/ osrmc_config_clear_disabled_feature_datasets
  \/ Ack

SpecConfig == InitConfig /\ [][NextConfig]_vars

\* No dataset twice in the list.
NoDuplicate(list) == \A i, j \in 1..Len(list) : list[i] = list[j] => i = j

\* The dataset a name stands for, however its letters are cased.
Named(name) ==
  CASE name \in {RouteSteps, Capitals(RouteSteps), Capitalised(RouteSteps)} -> "ROUTE_STEPS"
    [] name \in {RouteGeometry, Capitals(RouteGeometry), Capitalised(RouteGeometry)} ->
         "ROUTE_GEOMETRY"
    [] OTHER -> "none"

\* C29: after any sequence of osrmc_config_disable_feature_dataset and
\* osrmc_config_clear_disabled_feature_datasets calls the disabled-dataset list
\* has no duplicate: disabling a dataset already in the list (names compared
\* without regard to case, only route_steps and route_geometry accepted)
\* leaves the list unchanged, an unknown name reports InvalidDataset and
\* leaves the list unchanged, and clear empties the list.
C29_NoDuplicateDataset ==
  /\ NoDuplicate(config.disable_feature_dataset)
  /\ (pc # "idle" /\ last.fn = "osrmc_config_disable_feature_dataset"
        /\ last.cfg # NULL /\ last.dataset_name.some) =>
       LET before == last.pre.disable_feature_dataset
           dataset == Named(last.dataset_name.val)
       IN IF dataset = "none"
            THEN /\ pc = "returned"
                 /\ ~last.errNull => SlotCode(last) = "InvalidDataset"
                 /\ config = last.pre
            ELSE /\ pc = "returned"
                 /\ last.errs = <<>>
                 /\ config.disable_feature_dataset =
                      IF Exists(before, dataset) THEN before ELSE Append(before, dataset)
  /\ (pc = "returned" /\ last.fn = "osrmc_config_clear_disabled_feature_datasets"
        /\ last.cfg # NULL) => config.disable_feature_dataset = <<>>

\* ROUTE_STEPS is disabled and "ROUTE_STEPS" has been disabled once more.
C29_DisabledAgain ==
  /\ pc = "returned"
  /\ last.fn = "osrmc_config_disable_feature_dataset"
  /\ last.dataset_name = Some(Capitals(RouteSteps))
  /\ last.pre.disable_feature_dataset = <<"ROUTE_GEOMETRY", "ROUTE_STEPS">>
  /\ config = last.pre

(***************************************************************************)
(* The annotation counts of a leg against the per-kind accessors.          *)
(***************************************************************************)
AnnotationCounters ==
  { osrmc_route_response_leg_annotations_count, osrmc_match_response_leg_annotations_count,
    osrmc_trip_response_leg_annotations_count }

\* The per-kind accessors of the route service.
KindAccessors ==
  { osrmc_route_response_leg_annotations_duration,
    osrmc_route_response_leg_annotations_datasources,
    osrmc_route_response_leg_annotations_nodes }

\* The key of the routes of a service's response.
RoutesKey(svc) ==
  CASE svc = "route" -> "routes" [] svc = "match" -> "matchings" [] svc = "trip" -> "trips"

IsArrayOfObjects(node) ==
  node.t = "Array" /\ \A i \in 1..Len(node.v) : node.v[i].t = "Object"

\* The call l names a leg of the tree: the routes and the legs are there and
\* both indices are in range.
NamesLeg(l) ==
  /\ Has(l.pre, RoutesKey(l.svc))
  /\ IsArrayOfObjects(l.pre.v[RoutesKey(l.svc)])
  /\ l.args[1] < Len(l.pre.v[RoutesKey(l.svc)].v)
  /\ LET route == l.pre.v[RoutesKey(l.svc)].v[l.args[1] + 1]
     IN /\ Has(route, "legs")
        /\ IsArrayOfObjects(route.v["legs"])
        /\ l.args[2] < Len(route.v["legs"].v)

LegOf(l) == l.pre.v[RoutesKey(l.svc)].v[l.args[1] + 1].v["legs"].v[l.args[2] + 1]

\* The annotation of the leg, if it has one, is an object of arrays.
AnnotationOfArrays(leg) ==
  Has(leg, "annotation") =>
    /\ leg.v["annotation"].t = "Object"
    /\ \A k \in DOMAIN leg.v["annotation"].v : leg.v["annotation"].v[k].t = "Array"

\* The length of the first array present, in the order of AnnotationKinds.
FirstPresent(leg) ==
  IF ~Has(leg, "annotation") THEN 0
  ELSE LET annotation == leg.v["annotation"]
           present == { i \in 1..Len(AnnotationKinds) : Has(annotation, AnnotationKinds[i]) }
       IN IF present = {} THEN 0
          ELSE Len(annotation.v[AnnotationKinds[CHOOSE i \in present :
                                                  \A j \in present : i <= j]].v)

\* C30: the leg annotations count accessors return the length of the first
\* annotation array present in the order duration, distance, speed, weight,
\* nodes, datasources, and 0 when the leg has no "annotation" or none of the
\* arrays; for every annotation index below the returned count, each per-kind
\* accessor whose array is present does not report IndexOutOfBounds.
C30_AnnotationsCount ==
  (/\ pc # "idle"
   /\ last.fn \in {a.name : a \in AnnotationCounters}
   /\ last.h # NULL
   /\ NamesLeg(last)
   /\ AnnotationOfArrays(LegOf(last))) =>
    /\ pc = "returned"
    /\ last.ret = RNum(FirstPresent(LegOf(last)))
    /\ last.errs = <<>>
    /\ last.svc = "route" =>
         \A a \in KindAccessors, index \in 0..(last.ret.n - 1) :
           (Has(LegOf(last), "annotation") /\ Has(LegOf(last).v["annotation"], a.field)) =>
             \A o \in AccessorOutcomes(a, LiveObject, last.pre, last.args \o <<index>>, FALSE) :
               SlotCode(o) # "IndexOutOfBounds"

\* The annotations of a leg of one segment, with all six arrays, have been
\* counted: one, the length of "duration".
C30_CountedByDuration ==
  /\ pc = "returned"
  /\ last.fn = "osrmc_route_response_leg_annotations_count"
  /\ last.pre = RouteTree(1, {"fencepost"})
  /\ last.args = <<0, 0>>
  /\ last.ret = RNum(1)

====
